---- MODULE Spec2Model ----
(***************************************************************************)
(* PanWatch: the context snapshot store, the prediction ledger, the        *)
(* evaluator of pending predictions and the retention cleanup.             *)
(*                                                                         *)
(* Dates are day numbers; a stored date string is a record [fmt, day]      *)
(* because the store compares the stored strings while the evaluator       *)
(* parses them.  Float arithmetic is exact rational arithmetic: a return   *)
(* percentage is the fraction [num, den].  A nullable value is a sequence  *)
(* of length 0 (None) or 1.                                                *)
(***************************************************************************)
EXTENDS Integers, Sequences, FiniteSets, TLC

VARIABLES
    today,          \* date.today(), a day number
    quotes,         \* the daily close source: symbol -> set of klines
    outcomes,       \* table agent_prediction_outcomes: id -> row
    outcome_seq,    \* last AUTOINCREMENT id handed out in that table
    evalp,          \* one evaluate_pending invocation per thread of control
    cleanup_ret,    \* what the last cleanup_context_data call returned
    snapshots,      \* table stock_context_snapshots: id -> row
    snapshot_seq,   \* last AUTOINCREMENT id handed out in that table
    topics,         \* table news_topic_snapshots: id -> row
    topic_seq,
    runs,           \* table agent_context_runs: id -> row
    run_seq,
    buildp,         \* one build_symbol_contexts invocation per thread
    sched,          \* ContextMaintenanceScheduler: its flags and the calls of its methods
    assembly,       \* a build_symbol_contexts call over a watchlist of two symbols
    store_ret,      \* what the last save_agent_* call returned
    news,           \* a list of news items on its way through news_ranker
    kline           \* a build_kline_history_context call: the klines and the features

ledger == <<outcomes, outcome_seq>>
context == <<snapshots, snapshot_seq, topics, topic_seq, runs, run_seq>>
vars == <<today, quotes, outcomes, outcome_seq, evalp, cleanup_ret,
          snapshots, snapshot_seq, topics, topic_seq, runs, run_seq, buildp,
          sched, assembly, store_ret, news, kline>>

-----------------------------------------------------------------------------
(* Bounds of the model *)

MaxDay == 2
MaxRows == 1
MaxRuns == 1
SnapMaxDay == 1
EvalMaxDay == 1
BatchRows == 2
RecordRows == 2
YearLen == 5

(* Program constants *)

DefaultMaxHorizon == 10
DefaultLimit == 300
MinLookback == 120
LookbackPad == 30
MaxLookback == 600
DefaultSnapshotDays == 180
DefaultHistoryDays == 7

-----------------------------------------------------------------------------
(* Values *)

None == <<>>
Some(x) == <<x>>
IsNone(o) == o = <<>>
Val(o) == o[1]

Max(a, b) == IF a >= b THEN a ELSE b
Min(a, b) == IF a <= b THEN a ELSE b

Symbols == {"600519"}
Markets == {"CN"}
(* the threads that run evaluate_pending: the event loop (_evaluate_job and
   evaluate_once, both with the default arguments) and a worker thread of
   POST /context/predictions/evaluate *)
EvalThreads == {"loop", "api"}

TriggerPrices == {None, Some(0), Some(100)}
ClosePrices == {0, 110}
HorizonInputs == {0, 2}
Windows == {0, 2}

(* date.strftime("%Y-%m-%d") *)
strftime(day) == [fmt |-> "iso", day |-> day]

(* The calendar of the model: YearLen days to a year. *)
YearOf(day) == day \div YearLen
DayOfYear(day) == day % YearLen
SepRank(fmt) == IF fmt = "iso" THEN 0 ELSE 1

(* a < b on two stored date strings: the year digits first, then the
   separator ("-" sorts before "/"), then the zero-padded month and day. *)
StrLess(a, b) ==
    \/ YearOf(a.day) < YearOf(b.day)
    \/ /\ YearOf(a.day) = YearOf(b.day)
       /\ \/ SepRank(a.fmt) < SepRank(b.fmt)
          \/ /\ SepRank(a.fmt) = SepRank(b.fmt)
             /\ DayOfYear(a.day) < DayOfYear(b.day)

StrLessEq(a, b) == a = b \/ StrLess(a, b)

(* a parse that takes the digits of any text for a date *)
parse_dayAny(value) == Some(value.day)

(* _parse_day: both "%Y-%m-%d" and "%Y/%m/%d" parse, anything else is None. *)
parse_day(value) ==
    IF value.fmt \in {"iso", "slash"} THEN Some(value.day) ELSE None

-----------------------------------------------------------------------------
(* The daily close source *)

(* KlineCollector(market).get_klines(symbol, days): the rows of the last
   `days` days. *)
get_klines(symbol, days) ==
    {k \in quotes[symbol] : k.date.day > today - days /\ k.date.day <= today}

(* a pick that takes only the closes dated before the target *)
pick_close_before(klines, target) ==
    LET rows == {k \in klines : k.date.day < target}
    IN  IF rows = {} THEN <<>>
        ELSE <<(CHOOSE k \in rows : \A j \in rows : j.date.day <= k.date.day).close>>

(* _pick_close_on_or_before *)
ParsedRows(klines) ==
    {k \in klines : ~IsNone(parse_day(k.date))}

pick_close_on_or_before(klines, target) ==
    LET rows == {k \in ParsedRows(klines) : Val(parse_day(k.date)) <= target}
    IN  IF rows = {} THEN None
        ELSE LET last == CHOOSE k \in rows :
                            \A j \in rows :
                                Val(parse_day(j.date)) <= Val(parse_day(k.date))
             IN  Some(last.close)

-----------------------------------------------------------------------------
(* The prediction ledger *)

(* a row that keeps the horizon it was given *)
NewOutcomeRawHorizon(symbol, market, prediction_date, horizon_days, trigger_price, created) ==
    [stock_symbol |-> symbol,
     stock_market |-> market,
     prediction_date |-> prediction_date,
     horizon_days |-> horizon_days,
     trigger_price |-> trigger_price,
     outcome_price |-> None,
     outcome_return_pct |-> None,
     outcome_status |-> "pending",
     evaluated_at |-> None,
     created_at |-> created]

(* save_agent_prediction_outcome: the row it adds *)
NewOutcome(symbol, market, prediction_date, horizon_days, trigger_price, created) ==
    [stock_symbol |-> symbol,
     stock_market |-> market,
     prediction_date |-> prediction_date,
     horizon_days |-> Max(1, horizon_days),
     trigger_price |-> trigger_price,
     outcome_price |-> None,
     outcome_return_pct |-> None,
     outcome_status |-> "pending",
     evaluated_at |-> None,
     created_at |-> created]

(* a mark that is not committed *)
MarkTableUncommitted(tbl, record_id, outcome_price, outcome_return_pct, status, db_ok) ==
    tbl

(* a mark that writes the status and nothing else *)
MarkTableStatusOnly(tbl, record_id, outcome_price, outcome_return_pct, status, db_ok) ==
    IF record_id \notin DOMAIN tbl THEN tbl
    ELSE IF ~db_ok THEN tbl
    ELSE [tbl EXCEPT ![record_id] = [@ EXCEPT !.outcome_status = status]]

(* mark_agent_prediction_outcome: the table after the call *)
MarkTable(tbl, record_id, outcome_price, outcome_return_pct, status, db_ok) ==
    IF record_id \notin DOMAIN tbl THEN tbl
    ELSE IF ~db_ok THEN tbl
    ELSE [tbl EXCEPT ![record_id] =
            [@ EXCEPT !.outcome_price = outcome_price,
                      !.outcome_return_pct = outcome_return_pct,
                      !.outcome_status = status,
                      !.evaluated_at = Some(today)]]

(* a mark that reports success for a row it did not find *)
MarkOkNoLookup(tbl, record_id, db_ok) == db_ok

(* mark_agent_prediction_outcome: its return value *)
MarkOk(tbl, record_id, db_ok) == record_id \in DOMAIN tbl /\ db_ok

(* a listing that forgets the status filter *)
PendingFilterAnyStatus(tbl, max_horizon_days) ==
    {id \in DOMAIN tbl :
        /\ tbl[id].horizon_days <= max_horizon_days
        /\ StrLessEq(tbl[id].prediction_date, strftime(today))}

(* list_pending_prediction_outcomes: the WHERE clause *)
PendingFilter(tbl, max_horizon_days) ==
    {id \in DOMAIN tbl :
        /\ tbl[id].outcome_status = "pending"
        /\ tbl[id].horizon_days <= max_horizon_days
        /\ StrLessEq(tbl[id].prediction_date, strftime(today))}

(* an ORDER BY that is descending *)
OrderedAfter(tbl, a, b) ==
    \/ StrLess(tbl[b].prediction_date, tbl[a].prediction_date)
    \/ /\ tbl[a].prediction_date = tbl[b].prediction_date
       /\ tbl[a].created_at > tbl[b].created_at

(* ORDER BY prediction_date ASC, created_at ASC *)
OrderedBefore(tbl, a, b) ==
    \/ StrLess(tbl[a].prediction_date, tbl[b].prediction_date)
    \/ /\ tbl[a].prediction_date = tbl[b].prediction_date
       /\ tbl[a].created_at < tbl[b].created_at

(* every order the query may return its rows in: rows that tie on the
   ORDER BY key come in any order *)
Orderings(tbl, ids) ==
    {s \in [1..Cardinality(ids) -> ids] :
        /\ \A i, j \in 1..Cardinality(ids) : i < j => s[i] # s[j]
        /\ \A i, j \in 1..Cardinality(ids) : i < j => ~OrderedBefore(tbl, s[j], s[i])}

(* a LIMIT that lets one row more through *)
PrefixOneMore(s, n) == [i \in 1..Min(n + 1, Len(s)) |-> s[i]]

(* LIMIT n *)
Prefix(s, n) == [i \in 1..Min(n, Len(s)) |-> s[i]]

(* the detached row objects the evaluator works on *)
Detached(tbl, id) ==
    [id |-> id,
     stock_symbol |-> tbl[id].stock_symbol,
     stock_market |-> tbl[id].stock_market,
     prediction_date |-> tbl[id].prediction_date,
     horizon_days |-> tbl[id].horizon_days,
     trigger_price |-> tbl[id].trigger_price]

list_pending_prediction_outcomes(tbl, max_horizon_days, limit) ==
    {[i \in DOMAIN Prefix(s, limit) |-> Detached(tbl, s[i])] :
        s \in Orderings(tbl, PendingFilter(tbl, max_horizon_days))}

-----------------------------------------------------------------------------
(* evaluate_pending_prediction_outcomes *)

ZeroStats ==
    [total_pending |-> 0, eligible |-> 0, evaluated |-> 0,
     skipped_not_due |-> 0, skipped_invalid_date |-> 0, skipped_no_price |-> 0]

EmptyCache == [s \in Symbols |-> None]

IdlePass ==
    [pc |-> "idle", pending |-> <<>>, i |-> 0, today |-> 0,
     kline_cache |-> EmptyCache, stats |-> ZeroStats]

(* horizon = max(1, int(rec.horizon_days or 1)) *)
Horizon(rec) == Max(1, IF rec.horizon_days = 0 THEN 1 ELSE rec.horizon_days)

(* target_day = pred_day + timedelta(days=horizon) *)
TargetDay(rec) == Val(parse_day(rec.prediction_date)) + Horizon(rec)

(* a due test that lets a row mature one day early *)
NotDueOffByOne(rec, pass_today) == TargetDay(rec) > pass_today + 1

(* target_day > today: the row is not due *)
NotDue(rec, pass_today) == TargetDay(rec) > pass_today

(* lookback_days = max(120, (today - pred_day).days + 30), capped at 600 *)
LookbackDays(pass_today, pred_day) ==
    Min(Max(MinLookback, (pass_today - pred_day) + LookbackPad), MaxLookback)

(* a pass that asks the source for every row *)
SeriesForNoCache(st, rec, fetch_ok) ==
    IF fetch_ok
    THEN get_klines(rec.stock_symbol,
                    LookbackDays(st.today, Val(parse_day(rec.prediction_date))))
    ELSE {}

(* the series of the row's symbol: the cached one, or a fetch that may raise *)
SeriesFor(st, rec, fetch_ok) ==
    IF ~IsNone(st.kline_cache[rec.stock_symbol])
    THEN Val(st.kline_cache[rec.stock_symbol])
    ELSE IF fetch_ok
         THEN get_klines(rec.stock_symbol,
                         LookbackDays(st.today, Val(parse_day(rec.prediction_date))))
         ELSE {}

(* a base price that falls back to the close of the target day *)
BasePriceUpToTarget(rec, klines) ==
    IF ~IsNone(rec.trigger_price) /\ Val(rec.trigger_price) > 0
    THEN rec.trigger_price
    ELSE pick_close_on_or_before(klines, TargetDay(rec))

(* base price: the trigger price when positive, else the close on or before
   the prediction day *)
BasePrice(rec, klines) ==
    IF ~IsNone(rec.trigger_price) /\ Val(rec.trigger_price) > 0
    THEN rec.trigger_price
    ELSE pick_close_on_or_before(klines, Val(parse_day(rec.prediction_date)))

(* a return taken relative to the outcome price *)
ReturnPctOverOutcome(outcome_price, base_price) ==
    [num |-> (outcome_price - base_price) * 100, den |-> outcome_price]

(* (outcome_price - base_price) / base_price * 100 *)
ReturnPct(outcome_price, base_price) ==
    [num |-> (outcome_price - base_price) * 100, den |-> base_price]

(* one iteration of the loop over the pending rows: what it decides *)
RowResult(st, rec, fetch_ok) ==
    IF IsNone(parse_day(rec.prediction_date))
    THEN [kind |-> "invalid_date", cache |-> st.kline_cache,
          price |-> None, pct |-> None]
    ELSE IF NotDue(rec, st.today)
    THEN [kind |-> "not_due", cache |-> st.kline_cache,
          price |-> None, pct |-> None]
    ELSE LET klines == SeriesFor(st, rec, fetch_ok)
             cache == [st.kline_cache EXCEPT ![rec.stock_symbol] = Some(klines)]
             outcome_price == pick_close_on_or_before(klines, TargetDay(rec))
             base_price == BasePrice(rec, klines)
         IN  IF IsNone(outcome_price)
             THEN [kind |-> "no_price", cache |-> cache,
                   price |-> None, pct |-> None]
             ELSE IF IsNone(base_price) \/ Val(base_price) <= 0
             THEN [kind |-> "no_base_price", cache |-> cache,
                   price |-> outcome_price, pct |-> None]
             ELSE [kind |-> "evaluated", cache |-> cache,
                   price |-> outcome_price,
                   pct |-> Some(ReturnPct(Val(outcome_price), Val(base_price)))]

Marks(r) == r.kind \in {"no_base_price", "evaluated"}

(* the counters after the iteration *)
StatsAfter(stats, r, ok) ==
    IF r.kind = "invalid_date"
    THEN [stats EXCEPT !.skipped_invalid_date = @ + 1]
    ELSE IF r.kind = "not_due"
    THEN [stats EXCEPT !.skipped_not_due = @ + 1]
    ELSE IF r.kind = "no_price"
    THEN [stats EXCEPT !.eligible = @ + 1, !.skipped_no_price = @ + 1]
    ELSE [stats EXCEPT !.eligible = @ + 1,
                       !.evaluated = IF ok THEN @ + 1 ELSE @]

(* the arguments each entry point passes *)
HorizonArgs(p) == IF p = "api" THEN {1, DefaultMaxHorizon} ELSE {DefaultMaxHorizon}
LimitArgs(p) == IF p = "api" THEN {1, DefaultLimit} ELSE {DefaultLimit}

(* the call of list_pending_prediction_outcomes, the early return on an empty
   list, and today = date.today(), read once for the whole pass *)
EvalListWith(p, h, limit) ==
    /\ evalp[p].pc \in {"idle", "done"}
    /\ \E pend \in list_pending_prediction_outcomes(outcomes, h, limit) :
          evalp' = [evalp EXCEPT ![p] =
                      [IdlePass EXCEPT
                         !.pc = IF Len(pend) = 0 THEN "done" ELSE "run",
                         !.pending = pend,
                         !.i = IF Len(pend) = 0 THEN 0 ELSE 1,
                         !.today = IF Len(pend) = 0 THEN 0 ELSE today,
                         !.stats = [ZeroStats EXCEPT !.total_pending = Len(pend)]]]
    /\ UNCHANGED <<news, kline, store_ret, assembly, today, quotes, sched, outcomes, outcome_seq, cleanup_ret, context, buildp>>

EvalList(p) ==
    \E h \in HorizonArgs(p), limit \in LimitArgs(p) : EvalListWith(p, h, limit)

(* what the pass holds once it has returned: its stats *)
Returned(st, stats) == [IdlePass EXCEPT !.pc = "done", !.stats = stats]

(* one iteration of the loop, and the return after the last one; fetch_ok:
   get_klines returns rather than raises, db_ok: the commit of the mark goes
   through *)
EvalRowWith(p, fetch_ok, db_ok) ==
    /\ evalp[p].pc = "run"
    /\    LET st == evalp[p]
              rec == st.pending[st.i]
              r == RowResult(st, rec, fetch_ok)
              ok == Marks(r) /\ MarkOk(outcomes, rec.id, db_ok)
              stats == StatsAfter(st.stats, r, ok)
          IN  /\ outcomes' = IF Marks(r)
                             THEN MarkTable(outcomes, rec.id, r.price, r.pct,
                                            r.kind, db_ok)
                             ELSE outcomes
              /\ evalp' = [evalp EXCEPT ![p] =
                             IF st.i = Len(st.pending)
                             THEN Returned(st, stats)
                             ELSE [st EXCEPT !.i = @ + 1,
                                             !.kline_cache = r.cache,
                                             !.stats = stats]]
    /\ UNCHANGED <<news, kline, store_ret, assembly, today, quotes, sched, outcome_seq, cleanup_ret, context, buildp>>

EvalRow(p) == \E fetch_ok, db_ok \in BOOLEAN : EvalRowWith(p, fetch_ok, db_ok)

(* the process dies between two iterations of the loop: the pass is over
   without a return; what it held is kept to tell how far it had come *)
Crash(p) ==
    /\ evalp[p].pc = "run"
    /\ evalp' = [evalp EXCEPT ![p].pc = "done"]
    /\ UNCHANGED <<news, kline, store_ret, assembly, today, quotes, sched, outcomes, outcome_seq,
                   cleanup_ret, context, buildp>>

-----------------------------------------------------------------------------
(* The callers of the ledger and the world around it *)

(* created_at = func.now(), the database clock with a resolution of one
   second; only its order is kept: a new row is stamped with the latest stamp
   in the table (the same second) or the next one *)
LatestStamp(tbl) ==
    IF DOMAIN tbl = {} THEN 0
    ELSE CHOOSE t \in {tbl[id].created_at : id \in DOMAIN tbl} :
            \A id \in DOMAIN tbl : tbl[id].created_at <= t

CreatedNow(tbl) ==
    IF DOMAIN tbl = {} THEN {0} ELSE {LatestStamp(tbl), LatestStamp(tbl) + 1}

(* an agent run records a prediction dated today *)
RecordPrediction(horizons, triggers) ==
    /\ outcome_seq < MaxRows
    /\ \E symbol \in Symbols, market \in Markets, h \in horizons,
          trigger \in triggers, created \in CreatedNow(outcomes) :
          /\ outcome_seq' = outcome_seq + 1
          /\ outcomes' = [id \in DOMAIN outcomes \cup {outcome_seq + 1} |->
                            IF id \in DOMAIN outcomes THEN outcomes[id]
                            ELSE NewOutcome(symbol, market, strftime(today),
                                            h, trigger, created)]
    /\ UNCHANGED <<news, kline, store_ret, assembly, today, quotes, sched, evalp, cleanup_ret, context, buildp>>

(* the exchange publishes today's close *)
PublishClose(closes) ==
    /\ \E s \in Symbols, c \in closes :
          /\ \A k \in quotes[s] : k.date # strftime(today)
          /\ quotes' = [quotes EXCEPT ![s] = @ \cup {[date |-> strftime(today), close |-> c]}]
    /\ UNCHANGED <<news, kline, store_ret, assembly, today, sched, outcomes, outcome_seq, evalp, cleanup_ret, context, buildp>>

(* midnight *)
AdvanceDay(last) ==
    /\ today < last
    /\ today' = today + 1
    /\ UNCHANGED <<news, kline, store_ret, assembly, quotes, sched, outcomes, outcome_seq, evalp, cleanup_ret, context, buildp>>

-----------------------------------------------------------------------------
(* The snapshot store *)

Agents == {"premarket_outlook", "daily_report"}
Watchlist == <<"600519">>
Builders == {"b1", "b2"}

(* A payload or a quality dict: doc names its content, native says that it
   still holds values that are not JSON (enums, dates, dataclasses). *)
EmptyDict == [doc |-> 0, native |-> FALSE]
Doc(n, native) == [doc |-> n, native |-> native]

(* to_jsonable(value or {}) *)
to_jsonable(value) ==
    IF IsNone(value) THEN EmptyDict ELSE [Val(value) EXCEPT !.native = FALSE]

SnapshotKey(r) == <<r.symbol, r.market, r.snapshot_date, r.context_type>>

(* a topic filter on the date alone *)
TopicKeyDateOnly(r) == <<r.snapshot_date, 0>>

TopicKey(r) == <<r.snapshot_date, r.window_days>>

(* the unique key of every row of a table *)
SnapshotKeys(tbl) == [id \in DOMAIN tbl |-> SnapshotKey(tbl[id])]
TopicKeys(tbl) == [id \in DOMAIN tbl |-> TopicKey(tbl[id])]

(* query(...).filter(key).first(): the loaded row object, or None *)
FirstWith(tbl, keys, key) ==
    IF \E id \in DOMAIN tbl : keys[id] = key
    THEN LET id == CHOOSE i \in DOMAIN tbl : keys[i] = key
         IN  Some([id |-> id, row |-> tbl[id]])
    ELSE None

(* an upsert whose failed commit is not rolled back *)
UpsertCommitNoRollback(tbl, seq, keys, key, existing, row, db_ok) ==
    IF IsNone(existing)
    THEN [tbl |-> [id \in DOMAIN tbl \cup {seq + 1} |->
                     IF id \in DOMAIN tbl THEN tbl[id] ELSE row],
          seq |-> seq + 1, ret |-> db_ok]
    ELSE [tbl |-> [id \in DOMAIN tbl |->
                     IF id = Val(existing).id THEN row ELSE tbl[id]],
          seq |-> seq, ret |-> db_ok]

(* the flush and commit of an upsert: an INSERT when nothing was loaded (the
   unique constraint rejects a second row with the key), else an UPDATE of the
   loaded row by primary key (none is emitted when no attribute changed, and
   it fails when the row is gone) *)
UpsertCommit(tbl, seq, keys, key, existing, row, db_ok) ==
    IF ~db_ok THEN [tbl |-> tbl, seq |-> seq, ret |-> FALSE]
    ELSE IF IsNone(existing)
    THEN IF \E id \in DOMAIN tbl : keys[id] = key
         THEN [tbl |-> tbl, seq |-> seq, ret |-> FALSE]
         ELSE [tbl |-> [id \in DOMAIN tbl \cup {seq + 1} |->
                          IF id \in DOMAIN tbl THEN tbl[id] ELSE row],
               seq |-> seq + 1, ret |-> TRUE]
    ELSE IF row = Val(existing).row
    THEN [tbl |-> tbl, seq |-> seq, ret |-> TRUE]
    ELSE IF Val(existing).id \notin DOMAIN tbl
    THEN [tbl |-> tbl, seq |-> seq, ret |-> FALSE]
    ELSE [tbl |-> [tbl EXCEPT ![Val(existing).id] = row],
          seq |-> seq, ret |-> TRUE]

(* save_stock_context_snapshot: the row it writes *)
SnapshotRow(symbol, market, snapshot_date, context_type, payload, quality) ==
    [symbol |-> symbol, market |-> market, snapshot_date |-> snapshot_date,
     context_type |-> context_type,
     payload |-> to_jsonable(payload), quality |-> to_jsonable(quality)]

(* save_news_topic_snapshot: the row it writes *)
TopicRow(snapshot_date, window_days, symbols, body) ==
    [snapshot_date |-> snapshot_date, window_days |-> window_days,
     symbols |-> symbols, body |-> body]

(* save_agent_context_run: the row it adds *)
RunRow(agent_name, stock_symbol, analysis_date, context_payload, quality) ==
    [agent_name |-> agent_name,
     stock_symbol |-> IF stock_symbol = "" THEN "*" ELSE stock_symbol,
     analysis_date |-> analysis_date,
     context_payload |-> to_jsonable(context_payload),
     quality |-> to_jsonable(quality)]

-----------------------------------------------------------------------------
(* ContextBuilder.build_symbol_contexts *)

IdleBuild ==
    [pc |-> "idle", agent_name |-> "", snapshot_date |-> strftime(0), i |-> 0,
     payload |-> None, quality |-> None, existing |-> None,
     symbols |-> <<>>, ret |-> None]

(* the contexts the data sources of the day can yield for a symbol *)
Contexts ==
    {[payload |-> Some(Doc(1, TRUE)), quality |-> Some(Doc(100, FALSE))],
     [payload |-> Some(Doc(2, FALSE)), quality |-> Some(Doc(65, FALSE))]}

(* snapshot_date = _iso_today() *)
BuildStart(b, agents) ==
    /\ buildp[b].pc \in {"idle", "done"}
    /\ \E agent \in agents :
          buildp' = [buildp EXCEPT ![b] =
                       [IdleBuild EXCEPT !.pc = "context", !.agent_name = agent,
                                         !.snapshot_date = strftime(today), !.i = 1]]
    /\ UNCHANGED <<news, kline, store_ret, assembly, today, quotes, sched, ledger, evalp, cleanup_ret, context>>

(* the body of the loop up to the SELECT of save_stock_context_snapshot *)
BuildContext(b, contexts) ==
    /\ buildp[b].pc = "context"
    /\ \E c \in contexts :
          LET st == buildp[b]
              key == <<Watchlist[st.i], "CN", st.snapshot_date, st.agent_name>>
          IN  buildp' = [buildp EXCEPT ![b] =
                           [st EXCEPT !.pc = "write",
                                      !.payload = c.payload,
                                      !.quality = c.quality,
                                      !.symbols = Append(@, c.payload),
                                      !.existing = FirstWith(snapshots, SnapshotKeys(snapshots), key)]]
    /\ UNCHANGED <<news, kline, store_ret, assembly, today, quotes, sched, ledger, evalp, cleanup_ret, context>>

(* an upsert that keeps what the first save stored *)
SnapshotWrittenKeepsFirst(existing, row) ==
    IF IsNone(existing) THEN row ELSE Val(existing).row

(* the row save_stock_context_snapshot flushes: the new one, or the loaded one
   with payload and quality assigned *)
SnapshotWritten(existing, row) ==
    IF IsNone(existing) THEN row
    ELSE [Val(existing).row EXCEPT !.payload = row.payload,
                                   !.quality = row.quality]

(* the rest of save_stock_context_snapshot: insert or update, commit *)
BuildWriteWith(b, db_ok) ==
    /\ buildp[b].pc = "write"
    /\    LET st == buildp[b]
              row == SnapshotRow(Watchlist[st.i], "CN", st.snapshot_date,
                                 st.agent_name, st.payload, st.quality)
              new == SnapshotWritten(st.existing, row)
              r == UpsertCommit(snapshots, snapshot_seq,
                                SnapshotKeys(snapshots), SnapshotKey(row),
                                st.existing, new, db_ok)
          IN  /\ snapshots' = r.tbl
              /\ snapshot_seq' = r.seq
              /\ buildp' = [buildp EXCEPT ![b] =
                              [st EXCEPT !.pc = IF st.i = Len(Watchlist)
                                                THEN "topic" ELSE "context",
                                         !.i = @ + 1,
                                         !.ret = Some(r.ret)]]
    /\ UNCHANGED <<news, kline, store_ret, assembly, today, quotes, sched, ledger, evalp, cleanup_ret, topics, topic_seq,
                   runs, run_seq>>

BuildWrite(b, oks) == \E db_ok \in oks : BuildWriteWith(b, db_ok)

(* save_news_topic_snapshot up to its SELECT *)
BuildTopic(b) ==
    /\ buildp[b].pc = "topic"
    /\ buildp' = [buildp EXCEPT ![b].pc = "topic_write",
                                ![b].existing =
                                    FirstWith(topics, TopicKeys(topics),
                                              <<buildp[b].snapshot_date,
                                                Max(1, DefaultHistoryDays)>>)]
    /\ UNCHANGED <<news, kline, store_ret, assembly, today, quotes, sched, ledger, evalp, cleanup_ret, context>>

(* the rest of save_news_topic_snapshot, and the return of the contexts *)
BuildTopicWriteWith(b, db_ok) ==
    /\ buildp[b].pc = "topic_write"
    /\    LET st == buildp[b]
              row == TopicRow(st.snapshot_date, Max(1, DefaultHistoryDays),
                              Watchlist, [docs |-> st.symbols])
              new == IF IsNone(st.existing) THEN row
                     ELSE [Val(st.existing).row EXCEPT !.symbols = row.symbols,
                                                       !.body = row.body]
              r == UpsertCommit(topics, topic_seq, TopicKeys(topics), TopicKey(row),
                                st.existing, new, db_ok)
          IN  /\ topics' = r.tbl
              /\ topic_seq' = r.seq
              /\ buildp' = [buildp EXCEPT ![b] =
                              [IdleBuild EXCEPT !.pc = "done",
                                                !.symbols = st.symbols]]
    /\ UNCHANGED <<news, kline, store_ret, assembly, today, quotes, sched, ledger, evalp, cleanup_ret, snapshots,
                   snapshot_seq, runs, run_seq>>

BuildTopicWrite(b, oks) == \E db_ok \in oks : BuildTopicWriteWith(b, db_ok)

(* the agent stores the context its run saw: save_agent_context_run *)
SaveContextRun(agents) ==
    /\ run_seq < MaxRuns
    /\ \E agent \in agents :
          /\ runs' = [id \in DOMAIN runs \cup {run_seq + 1} |->
                        IF id \in DOMAIN runs THEN runs[id]
                        ELSE RunRow(agent, "*", strftime(today),
                                    Some(Doc(1, TRUE)), Some(Doc(100, FALSE)))]
          /\ run_seq' = run_seq + 1
    /\ UNCHANGED <<news, kline, store_ret, assembly, today, quotes, sched, ledger, evalp, cleanup_ret, snapshots,
                   snapshot_seq, topics, topic_seq, buildp>>

(* an add that writes over the row added last *)
AddRowOverLast(tbl, seq, row) ==
    [id \in DOMAIN tbl \cup {Max(1, seq)} |-> IF id = Max(1, seq) THEN row ELSE tbl[id]]

(* db.add(row) and its INSERT: the row gets the next AUTOINCREMENT id *)
AddRow(tbl, seq, row) ==
    [id \in DOMAIN tbl \cup {seq + 1} |-> IF id \in DOMAIN tbl THEN tbl[id] ELSE row]

(* save_agent_context_run: add the row and commit; a commit that fails is
   rolled back and the call returns False *)
SaveContextRunUpTo(rows, agent, db_ok) ==
    /\ db_ok => run_seq < rows
    /\ runs' = IF db_ok
               THEN AddRow(runs, run_seq,
                           RunRow(agent, "*", strftime(today),
                                  Some(Doc(1, TRUE)), Some(Doc(100, FALSE))))
               ELSE runs
    /\ run_seq' = IF db_ok THEN run_seq + 1 ELSE run_seq
    /\ store_ret' = Some([fn |-> "save_agent_context_run", ok |-> db_ok])
    /\ UNCHANGED <<news, kline, assembly, today, quotes, sched, ledger, evalp, cleanup_ret,
                   snapshots, snapshot_seq, topics, topic_seq, buildp>>

SaveContextRunWith(agent, db_ok) == SaveContextRunUpTo(MaxRuns, agent, db_ok)

(* save_agent_prediction_outcome: add the pending row and commit; a commit
   that fails is rolled back and the call returns False *)
SavePredictionUpTo(rows, h, trigger, db_ok) ==
    /\ db_ok => outcome_seq < rows
    /\ \E symbol \in Symbols, market \in Markets, created \in CreatedNow(outcomes) :
          outcomes' = IF db_ok
                      THEN [id \in DOMAIN outcomes \cup {outcome_seq + 1} |->
                              IF id \in DOMAIN outcomes THEN outcomes[id]
                              ELSE NewOutcome(symbol, market, strftime(today),
                                              h, trigger, created)]
                      ELSE outcomes
    /\ outcome_seq' = IF db_ok THEN outcome_seq + 1 ELSE outcome_seq
    /\ store_ret' = Some([fn |-> "save_agent_prediction_outcome", ok |-> db_ok])
    /\ UNCHANGED <<news, kline, assembly, today, quotes, sched, evalp, cleanup_ret, context, buildp>>

SavePredictionWith(h, trigger, db_ok) == SavePredictionUpTo(MaxRows, h, trigger, db_ok)

-----------------------------------------------------------------------------
(* cleanup_context_data *)

NoDeleted ==
    [stock_context_snapshots |-> 0, news_topic_snapshots |-> 0,
     agent_context_runs |-> 0, agent_prediction_outcomes |-> 0]

(* a cutoff without the floor of one day *)
CutoffNoFloor(days) == strftime(today - days)

(* (date.today() - timedelta(days=max(1, int(days)))).strftime("%Y-%m-%d") *)
Cutoff(days) == strftime(today - Max(1, days))

(* a DELETE that also takes the rows dated on the cutoff *)
ExpiredInclusive(tbl, field, cutoff) ==
    {id \in DOMAIN tbl : StrLessEq(tbl[id][field], cutoff)}

(* the rows a DELETE ... WHERE date < cutoff removes *)
Expired(tbl, field, cutoff) ==
    {id \in DOMAIN tbl : StrLess(tbl[id][field], cutoff)}

Without(tbl, ids) == [id \in DOMAIN tbl \ ids |-> tbl[id]]

cleanup_context_data(snapshot_days, topic_days, context_run_days, outcome_days) ==
    LET gone_s == Expired(snapshots, "snapshot_date", Cutoff(snapshot_days))
        gone_t == Expired(topics, "snapshot_date", Cutoff(topic_days))
        gone_r == Expired(runs, "analysis_date", Cutoff(context_run_days))
        gone_o == Expired(outcomes, "prediction_date", Cutoff(outcome_days))
    IN  /\ snapshots' = Without(snapshots, gone_s)
        /\ topics' = Without(topics, gone_t)
        /\ runs' = Without(runs, gone_r)
        /\ outcomes' = Without(outcomes, gone_o)
        /\ cleanup_ret' = [stock_context_snapshots |-> Cardinality(gone_s),
                           news_topic_snapshots |-> Cardinality(gone_t),
                           agent_context_runs |-> Cardinality(gone_r),
                           agent_prediction_outcomes |-> Cardinality(gone_o)]

Cleanup(snapshot_days, topic_days, context_run_days, outcome_days) ==
    /\ UNCHANGED <<news, kline, store_ret, assembly, today, quotes, sched, outcome_seq, evalp,
                   snapshot_seq, topic_seq, run_seq, buildp>>
    /\ cleanup_context_data(snapshot_days, topic_days, context_run_days, outcome_days)

(* a failing cleanup whose DELETE statements that ran stay in the tables *)
CleanupFailsPartial(snapshot_days, topic_days, context_run_days, outcome_days, done) ==
    /\ UNCHANGED <<news, kline, store_ret, assembly, today, quotes, sched, outcome_seq, evalp,
                   snapshot_seq, topic_seq, run_seq, buildp, cleanup_ret>>
    /\ snapshots' = IF done >= 1
                    THEN Without(snapshots, Expired(snapshots, "snapshot_date",
                                                    Cutoff(snapshot_days)))
                    ELSE snapshots
    /\ topics' = IF done >= 2
                 THEN Without(topics, Expired(topics, "snapshot_date", Cutoff(topic_days)))
                 ELSE topics
    /\ runs' = IF done >= 3
               THEN Without(runs, Expired(runs, "analysis_date", Cutoff(context_run_days)))
               ELSE runs
    /\ outcomes' = IF done >= 4
                   THEN Without(outcomes, Expired(outcomes, "prediction_date",
                                                  Cutoff(outcome_days)))
                   ELSE outcomes

(* cleanup_context_data when one of its statements, or the commit, raises after
   `done` of the four DELETE statements ran: the except branch rolls the
   transaction back and returns `deleted` with the counts assigned so far *)
CleanupFails(snapshot_days, topic_days, context_run_days, outcome_days, done) ==
    /\ UNCHANGED <<news, kline, store_ret, assembly, today, quotes, sched, ledger, evalp, context, buildp>>
    /\ cleanup_ret' =
          [stock_context_snapshots |->
              IF done >= 1
              THEN Cardinality(Expired(snapshots, "snapshot_date",
                                       Cutoff(snapshot_days)))
              ELSE 0,
           news_topic_snapshots |->
              IF done >= 2
              THEN Cardinality(Expired(topics, "snapshot_date", Cutoff(topic_days)))
              ELSE 0,
           agent_context_runs |->
              IF done >= 3
              THEN Cardinality(Expired(runs, "analysis_date",
                                       Cutoff(context_run_days)))
              ELSE 0,
           agent_prediction_outcomes |->
              IF done >= 4
              THEN Cardinality(Expired(outcomes, "prediction_date",
                                       Cutoff(outcome_days)))
              ELSE 0]

-----------------------------------------------------------------------------
(* ContextMaintenanceScheduler *)

MinSnapshotRetention == 30
MinOutcomeRetention == 60
DefaultOutcomeRetention == 365

(* a scheduler that keeps the retention it was given *)
outcome_retention_daysNoFloor(days) == days

(* self.snapshot_retention_days = max(30, int(snapshot_retention_days)),
   self.outcome_retention_days = max(60, int(outcome_retention_days)) *)
snapshot_retention_days(days) == Max(MinSnapshotRetention, days)
outcome_retention_days(days) == Max(MinOutcomeRetention, days)

(* The calls of the scheduler's coroutines: two invocations of each job, fired
   by the AsyncIOScheduler on its event loop, and one call of each *_once
   method, awaited on that loop or on the loop of another thread. *)
Jobs == {"_evaluate_job", "_cleanup_job"}
Onces == {"evaluate_once", "cleanup_once"}
Calls == (Jobs \X {1, 2}) \cup (Onces \X {1})

IdleCall == [pc |-> "idle", on_loop |-> TRUE]

(* ContextMaintenanceScheduler(snapshot_retention_days=..., outcome_retention_days=...) *)
Scheduler(snapshot_days, outcome_days) ==
    [evaluating |-> FALSE, cleaning |-> FALSE, calls |-> [c \in Calls |-> IdleCall],
     snapshot_retention_days |-> snapshot_retention_days(snapshot_days),
     outcome_retention_days |-> outcome_retention_days(outcome_days)]

IdleSched == Scheduler(DefaultSnapshotDays, DefaultOutcomeRetention)

Evaluates(c) == c[1] \in {"_evaluate_job", "evaluate_once"}

(* a coroutine without an await keeps the event loop from its first statement
   to its last: no other coroutine of that loop runs in between *)
LoopAlwaysFree == TRUE

LoopFree ==
    \A c \in Calls : sched.calls[c].pc = "idle" \/ ~sched.calls[c].on_loop

(* self._evaluating / self._cleaning *)
FlagOf(job) == IF job = "_evaluate_job" THEN sched.evaluating ELSE sched.cleaning

(* the thread of control whose evaluate_pending call this is *)
PassOf(c) == IF sched.calls[c].on_loop THEN "loop" ELSE "api"

(* a job that leaves without clearing its flag *)
JobExitKeepsFlag(c) ==
    [sched EXCEPT !.calls[c] = IdleCall]

(* finally: self._evaluating = False / self._cleaning = False, and the
   coroutine is over *)
JobExit(c) ==
    [sched EXCEPT !.evaluating = IF c[1] = "_evaluate_job" THEN FALSE ELSE @,
                  !.cleaning = IF c[1] = "_cleanup_job" THEN FALSE ELSE @,
                  !.calls[c] = IdleCall]

(* if self._evaluating: log and return *)
JobCheck(c) ==
    /\ c[1] \in Jobs
    /\ sched.calls[c].pc = "idle"
    /\ LoopFree
    /\ sched' = IF FlagOf(c[1]) THEN sched
                ELSE [sched EXCEPT !.calls[c].pc = "checked"]
    /\ UNCHANGED <<news, kline, store_ret, assembly, today, quotes, ledger, evalp, cleanup_ret, context, buildp>>

(* self._evaluating = True; try: the body is entered *)
JobSet(c) ==
    /\ sched.calls[c].pc = "checked"
    /\ sched' = [sched EXCEPT
                   !.evaluating = IF c[1] = "_evaluate_job" THEN TRUE ELSE @,
                   !.cleaning = IF c[1] = "_cleanup_job" THEN TRUE ELSE @,
                   !.calls[c].pc = "body"]
    /\ evalp' = IF Evaluates(c) THEN [evalp EXCEPT !["loop"] = IdlePass] ELSE evalp
    /\ UNCHANGED <<news, kline, store_ret, assembly, today, quotes, ledger, cleanup_ret, context, buildp>>

(* evaluate_once / cleanup_once are called *)
OnceStart(c, on_loop) ==
    /\ c[1] \in Onces
    /\ sched.calls[c].pc = "idle"
    /\ on_loop => LoopFree
    /\ sched' = [sched EXCEPT !.calls[c] = [pc |-> "body", on_loop |-> on_loop]]
    /\ evalp' = IF Evaluates(c)
                THEN [evalp EXCEPT ![IF on_loop THEN "loop" ELSE "api"] = IdlePass]
                ELSE evalp
    /\ UNCHANGED <<news, kline, store_ret, assembly, today, quotes, ledger, cleanup_ret, context, buildp>>

(* the body of an evaluation: evaluate_pending_prediction_outcomes() *)
BodyList(c) ==
    /\ Evaluates(c)
    /\ sched.calls[c].pc = "body"
    /\ evalp[PassOf(c)].pc = "idle"
    /\ EvalList(PassOf(c))

BodyRow(c) ==
    /\ Evaluates(c)
    /\ sched.calls[c].pc = "body"
    /\ EvalRow(PassOf(c))

(* the evaluation returned its stats: log, finally *)
EvaluateJobReturns(c) ==
    /\ c[1] = "_evaluate_job"
    /\ sched.calls[c].pc = "body"
    /\ evalp["loop"].pc = "done"
    /\ sched' = JobExit(c)
    /\ UNCHANGED <<news, kline, store_ret, assembly, today, quotes, ledger, evalp, cleanup_ret, context, buildp>>

(* list_pending_prediction_outcomes raised: except Exception logs it, finally *)
EvaluateJobRaises(c) ==
    /\ c[1] = "_evaluate_job"
    /\ sched.calls[c].pc = "body"
    /\ evalp["loop"].pc = "idle"
    /\ sched' = JobExit(c)
    /\ UNCHANGED <<news, kline, store_ret, assembly, today, quotes, ledger, evalp, cleanup_ret, context, buildp>>

(* evaluate_once returns the stats, or lets the exception of the listing
   through to its caller *)
EvaluateOnceEnds(c) ==
    /\ c[1] = "evaluate_once"
    /\ sched.calls[c].pc = "body"
    /\ evalp[PassOf(c)].pc \in {"idle", "done"}
    /\ sched' = [sched EXCEPT !.calls[c] = IdleCall]
    /\ UNCHANGED <<news, kline, store_ret, assembly, today, quotes, ledger, evalp, cleanup_ret, context, buildp>>

(* the body of _cleanup_job: cleanup_context_data with the retention windows,
   the log line and the finally *)
CleanupJobRuns(c) ==
    /\ c[1] = "_cleanup_job"
    /\ sched.calls[c].pc = "body"
    /\ cleanup_context_data(sched.snapshot_retention_days, sched.snapshot_retention_days,
                            sched.snapshot_retention_days, sched.outcome_retention_days)
    /\ sched' = JobExit(c)
    /\ UNCHANGED <<news, kline, store_ret, assembly, today, quotes, outcome_seq, evalp,
                   snapshot_seq, topic_seq, run_seq, buildp>>

(* SessionLocal() raised in cleanup_context_data: except Exception logs it,
   finally *)
CleanupJobRaises(c) ==
    /\ c[1] = "_cleanup_job"
    /\ sched.calls[c].pc = "body"
    /\ sched' = JobExit(c)
    /\ UNCHANGED <<news, kline, store_ret, assembly, today, quotes, ledger, evalp, cleanup_ret, context, buildp>>

(* cleanup_once: cleanup_context_data with the retention windows *)
CleanupOnceRuns(c) ==
    /\ c[1] = "cleanup_once"
    /\ sched.calls[c].pc = "body"
    /\ cleanup_context_data(sched.snapshot_retention_days, sched.snapshot_retention_days,
                            sched.snapshot_retention_days, sched.outcome_retention_days)
    /\ sched' = [sched EXCEPT !.calls[c] = IdleCall]
    /\ UNCHANGED <<news, kline, store_ret, assembly, today, quotes, outcome_seq, evalp,
                   snapshot_seq, topic_seq, run_seq, buildp>>

-----------------------------------------------------------------------------
(* ContextBuilder: coverage and quality of one symbol's context *)

CoverageKeys ==
    {"quote", "technical", "kline_history", "news_realtime", "news_extended",
     "history_news", "events"}

(* a score that is not clamped *)
estimate_quality_score_unclamped(coverage) ==
    100 - (IF coverage.quote THEN 0 ELSE 35)
        - (IF coverage.technical THEN 0 ELSE 25)
        - (IF coverage.kline_history THEN 0 ELSE 10)
        - (IF coverage.news_realtime THEN 0 ELSE 15)
        - (IF coverage.news_extended THEN 0 ELSE 10)
        - (IF coverage.history_news THEN 0 ELSE 10)
        - (IF coverage.events THEN 0 ELSE 5)

(* _estimate_quality_score *)
estimate_quality_score(coverage) ==
    LET s0 == 100
        s1 == IF ~coverage.quote THEN s0 - 35 ELSE s0
        s2 == IF ~coverage.technical THEN s1 - 25 ELSE s1
        s3 == IF ~coverage.kline_history THEN s2 - 10 ELSE s2
        s4 == IF ~coverage.news_realtime THEN s3 - 15 ELSE s3
        s5 == IF ~coverage.news_extended THEN s4 - 10 ELSE s4
        s6 == IF ~coverage.history_news THEN s5 - 10 ELSE s5
        s7 == IF ~coverage.events THEN s6 - 5 ELSE s6
    IN  Max(0, Min(100, s7))

(* What the data sources hold for one symbol when its context is built:
   pack      packs.get(symbol) is there
   quote     pack.quote is there
   technical pack.technical is missing, carries an error marker, or is good
   events    pack.events has items
   news      the newest item of pack.news: none, one within extended_hours
             only, or one within realtime_hours (which is within both)
   history   saved analysis records mention the symbol (a failed read of
             them is caught in _load_history_news and yields none)
   kline     KlineCollector.get_klines returns rows, returns none, or raises *)
AllSources ==
    [pack |-> TRUE, quote |-> TRUE, technical |-> "ok", events |-> TRUE,
     news |-> "realtime", history |-> TRUE, kline |-> "ok"]

NoSources ==
    [pack |-> TRUE, quote |-> FALSE, technical |-> "none", events |-> FALSE,
     news |-> "none", history |-> FALSE, kline |-> "empty"]

(* every source good, one source failing in each of its ways, none good *)
SourceChoices ==
    {AllSources, NoSources,
     [AllSources EXCEPT !.pack = FALSE],
     [AllSources EXCEPT !.quote = FALSE],
     [AllSources EXCEPT !.technical = "none"],
     [AllSources EXCEPT !.technical = "error"],
     [AllSources EXCEPT !.events = FALSE],
     [AllSources EXCEPT !.news = "none"],
     [AllSources EXCEPT !.news = "extended"],
     [AllSources EXCEPT !.history = FALSE],
     [AllSources EXCEPT !.kline = "empty"],
     [AllSources EXCEPT !.kline = "raises"]}

(* coverage = {...} of build_symbol_contexts *)
Coverage(src) ==
    [quote |-> src.pack /\ src.quote,
     technical |-> src.pack /\ src.technical = "ok",
     events |-> src.pack /\ src.events,
     news_realtime |-> src.pack /\ src.news = "realtime",
     news_extended |-> src.pack /\ src.news \in {"realtime", "extended"},
     history_news |-> src.history,
     kline_history |-> src.kline = "ok"]

(* payload: the fields of the context that the sources decide *)
SymbolContext(symbol, src) ==
    [symbol |-> symbol,
     kline_history |-> [available |-> src.kline = "ok"],
     data_quality |-> [score |-> estimate_quality_score(Coverage(src)),
                       coverage |-> Coverage(src)]]

Watchlist2 == <<"600519", "000001">>
AssemblyAgent == "premarket_outlook"

IdleAssembly ==
    [pc |-> "idle", i |-> 0, snapshot_date |-> strftime(0),
     coverage |-> [k \in CoverageKeys |-> TRUE], score |-> None,
     symbol_contexts |-> <<>>, saved |-> <<>>, ret |-> None]

(* the call of _estimate_quality_score on a coverage dict *)
EstimateQuality ==
    /\ assembly.pc = "idle"
    /\ assembly' = [assembly EXCEPT
                      !.pc = "scored",
                      !.score = Some(estimate_quality_score(assembly.coverage))]
    /\ UNCHANGED <<news, kline, store_ret, today, quotes, sched, ledger, evalp, cleanup_ret, context, buildp>>

(* build_symbol_contexts is called: snapshot_date = _iso_today() *)
AssembleStart ==
    /\ assembly.pc = "idle"
    /\ assembly' = [IdleAssembly EXCEPT !.pc = "loop", !.i = 1,
                                        !.snapshot_date = strftime(today)]
    /\ UNCHANGED <<news, kline, store_ret, today, quotes, sched, ledger, evalp, cleanup_ret, context, buildp>>

(* build_kline_history_context raises what get_klines raised, and nothing in
   _get_kline_history or in the loop catches it: the call is over, with no
   context returned *)
AssembleRaises ==
    [assembly EXCEPT !.pc = "raised", !.symbol_contexts = <<>>]

(* one round of the loop over context.watchlist: the news layers, the kline
   history, coverage, quality and payload of the symbol, and the whole of
   save_stock_context_snapshot *)
AssembleSymbol(src, db_ok) ==
    /\ assembly.pc = "loop"
    /\ assembly.i <= Len(Watchlist2)
    /\ LET symbol == Watchlist2[assembly.i]
           payload == SymbolContext(symbol, src)
           key == <<symbol, "CN", assembly.snapshot_date, AssemblyAgent>>
           existing == FirstWith(snapshots, SnapshotKeys(snapshots), key)
           row == SnapshotRow(symbol, "CN", assembly.snapshot_date, AssemblyAgent,
                              Some(Doc(payload.data_quality.score, TRUE)),
                              Some(Doc(payload.data_quality.score, FALSE)))
           r == UpsertCommit(snapshots, snapshot_seq, SnapshotKeys(snapshots), key,
                             existing, SnapshotWritten(existing, row), db_ok)
       IN  IF src.kline = "raises"
           THEN /\ assembly' = AssembleRaises
                /\ UNCHANGED <<news, kline, store_ret, snapshots, snapshot_seq>>
           ELSE /\ assembly' = [assembly EXCEPT
                                  !.i = @ + 1,
                                  !.symbol_contexts = Append(@, payload),
                                  !.saved = Append(@, r.ret)]
                /\ snapshots' = r.tbl
                /\ snapshot_seq' = r.seq
    /\ UNCHANGED <<news, kline, store_ret, today, quotes, sched, ledger, evalp, cleanup_ret, topics, topic_seq,
                   runs, run_seq, buildp>>

(* quality_scores of the contexts built *)
QualityScores(symbol_contexts) ==
    [i \in DOMAIN symbol_contexts |-> symbol_contexts[i].data_quality.score]

(* min(quality_scores) / max(quality_scores), 0 when there is none *)
MinScore(scores) ==
    IF scores = <<>> THEN 0
    ELSE CHOOSE m \in {scores[i] : i \in DOMAIN scores} :
            \A i \in DOMAIN scores : m <= scores[i]
MaxScore(scores) ==
    IF scores = <<>> THEN 0
    ELSE CHOOSE m \in {scores[i] : i \in DOMAIN scores} :
            \A i \in DOMAIN scores : m >= scores[i]

(* after the loop: the whole of save_news_topic_snapshot, quality_overview and
   the return *)
AssembleFinish(db_ok) ==
    /\ assembly.pc = "loop"
    /\ assembly.i > Len(Watchlist2)
    /\ LET window_days == Max(1, DefaultHistoryDays)
           key == <<assembly.snapshot_date, window_days>>
           existing == FirstWith(topics, TopicKeys(topics), key)
           row == TopicRow(assembly.snapshot_date, window_days, Watchlist2,
                           [docs |-> QualityScores(assembly.symbol_contexts)])
           new == IF IsNone(existing) THEN row
                  ELSE [Val(existing).row EXCEPT !.symbols = row.symbols,
                                                 !.body = row.body]
           r == UpsertCommit(topics, topic_seq, TopicKeys(topics), key,
                             existing, new, db_ok)
           scores == QualityScores(assembly.symbol_contexts)
       IN  /\ topics' = r.tbl
           /\ topic_seq' = r.seq
           /\ assembly' = [assembly EXCEPT
                             !.pc = "done",
                             !.saved = Append(@, r.ret),
                             !.ret = Some([symbols |-> assembly.symbol_contexts,
                                           quality_overview |->
                                              [min_score |-> MinScore(scores),
                                               max_score |-> MaxScore(scores),
                                               symbol_count |-> Len(scores)]])]
    /\ UNCHANGED <<news, kline, store_ret, today, quotes, sched, ledger, evalp, cleanup_ret, snapshots,
                   snapshot_seq, runs, run_seq, buildp>>

-----------------------------------------------------------------------------
(* The ledger with evaluation passes running concurrently *)

IdleNews == [pc |-> "idle", symbol |-> "", items |-> <<>>, out |-> <<>>, again |-> <<>>]
IdleKline == [pc |-> "idle", klines |-> <<>>, features |-> None]

InitCore ==
    /\ today = 0
    /\ quotes = [s \in Symbols |-> {}]
    /\ evalp = [p \in EvalThreads |-> IdlePass]
    /\ cleanup_ret = NoDeleted
    /\ snapshots = <<>>
    /\ snapshot_seq = 0
    /\ topics = <<>>
    /\ topic_seq = 0
    /\ runs = <<>>
    /\ run_seq = 0
    /\ buildp = [b \in Builders |-> IdleBuild]
    /\ sched = IdleSched

InitRest == InitCore /\ news = IdleNews /\ kline = IdleKline

InitStore == InitRest /\ outcomes = <<>> /\ outcome_seq = 0

Init == InitStore /\ assembly = IdleAssembly /\ store_ret = None

Next ==
    \/ RecordPrediction(HorizonInputs, TriggerPrices)
    \/ PublishClose(ClosePrices)
    \/ AdvanceDay(MaxDay)
    \/ \E od \in Windows :
          Cleanup(DefaultSnapshotDays, DefaultSnapshotDays, DefaultSnapshotDays, od)
    \/ \E p \in EvalThreads : EvalList(p)
    \/ \E p \in EvalThreads : EvalRow(p)

Spec == Init /\ [][Next]_vars

-----------------------------------------------------------------------------
(* The ledger with one evaluation pass at a time and no cleanup *)

NextSeq ==
    \/ RecordPrediction(HorizonInputs, TriggerPrices)
    \/ PublishClose(ClosePrices)
    \/ AdvanceDay(EvalMaxDay)
    \/ EvalList("api")
    \/ EvalRow("api")

SpecSeq == Init /\ [][NextSeq]_vars

-----------------------------------------------------------------------------
(* The ledger under passes of the scheduler and of the API that follow one
   another: a pass starts only when no other is running *)

EvalListAlone(p) ==
    /\ \A q \in EvalThreads : evalp[q].pc # "run"
    /\ EvalList(p)

NextRetry ==
    \/ RecordPrediction({1}, {Some(100)})
    \/ PublishClose({110})
    \/ AdvanceDay(EvalMaxDay)
    \/ \E p \in EvalThreads : EvalListAlone(p)
    \/ \E p \in EvalThreads : EvalRow(p)

SpecRetry == Init /\ [][NextRetry]_vars

-----------------------------------------------------------------------------
(* The ledger under evaluation passes and retention cleanups *)

NextRetain ==
    \/ RecordPrediction({1}, {None})
    \/ PublishClose({110})
    \/ AdvanceDay(MaxDay)
    \/ \E od \in Windows :
          Cleanup(DefaultSnapshotDays, DefaultSnapshotDays, DefaultSnapshotDays, od)
    \/ EvalList("api")
    \/ EvalRow("api")

SpecRetain == Init /\ [][NextRetain]_vars

-----------------------------------------------------------------------------
(* The snapshot store under builds that run concurrently, with a database
   that does not fail *)

NextSnap ==
    \/ AdvanceDay(SnapMaxDay)
    \/ \E b \in Builders : BuildStart(b, {"premarket_outlook"})
    \/ \E b \in Builders : BuildContext(b, Contexts)
    \/ \E b \in Builders : BuildWrite(b, {TRUE})
    \/ \E b \in Builders : BuildTopic(b)
    \/ \E b \in Builders : BuildTopicWrite(b, {TRUE})

SpecSnap == Init /\ [][NextSnap]_vars

(* ... and under builds that run one after another *)

NextSnapSeq ==
    \/ AdvanceDay(SnapMaxDay)
    \/ BuildStart("b1", Agents)
    \/ BuildContext("b1", Contexts)
    \/ BuildWrite("b1", BOOLEAN)
    \/ BuildTopic("b1")
    \/ BuildTopicWrite("b1", BOOLEAN)

SpecSnapSeq == Init /\ [][NextSnapSeq]_vars

-----------------------------------------------------------------------------
(* The four tables under the retention cleanup *)

(* the windows of a cleanup call: all alike, or one table's its own *)
WindowChoices ==
    {w \in Windows \X Windows \X Windows \X Windows :
        Cardinality({i \in 1..4 : w[i] = 2}) \in {0, 1, 4}}

NextCleanup ==
    \/ AdvanceDay(MaxDay)
    \/ BuildStart("b1", {"premarket_outlook"})
    \/ BuildContext("b1", {[payload |-> Some(Doc(1, TRUE)),
                             quality |-> Some(Doc(100, FALSE))]})
    \/ BuildWrite("b1", {TRUE})
    \/ BuildTopic("b1")
    \/ BuildTopicWrite("b1", {TRUE})
    \/ SaveContextRun({"premarket_outlook"})
    \/ RecordPrediction({1}, {None})
    \/ \E w \in WindowChoices : Cleanup(w[1], w[2], w[3], w[4])

SpecCleanup == Init /\ [][NextCleanup]_vars

(* The same, with cleanups that may fail part-way *)

NextCleanupFail ==
    \/ NextCleanup
    \/ \E w \in WindowChoices, done \in 0..4 :
          CleanupFails(w[1], w[2], w[3], w[4], done)

SpecCleanupFail == Init /\ [][NextCleanupFail]_vars

-----------------------------------------------------------------------------
(* The maintenance scheduler over the ledger *)

NextSched ==
    \/ RecordPrediction({1}, {None})
    \/ \E c \in Calls : JobCheck(c)
    \/ \E c \in Calls : JobSet(c)
    \/ \E c \in Calls, on_loop \in BOOLEAN : OnceStart(c, on_loop)
    \/ \E c \in Calls : BodyList(c)
    \/ \E c \in Calls : BodyRow(c)
    \/ \E c \in Calls : EvaluateJobReturns(c)
    \/ \E c \in Calls : EvaluateJobRaises(c)
    \/ \E c \in Calls : EvaluateOnceEnds(c)
    \/ \E c \in Calls : CleanupJobRuns(c)
    \/ \E c \in Calls : CleanupJobRaises(c)
    \/ \E c \in Calls : CleanupOnceRuns(c)

SpecSched == Init /\ [][NextSched]_vars

(* a job that is inside its body goes on: its I/O returns or raises *)
JobProgress ==
    \E c \in Jobs \X {1, 2} :
        \/ JobSet(c)
        \/ BodyList(c)
        \/ BodyRow(c)
        \/ EvaluateJobReturns(c)
        \/ EvaluateJobRaises(c)
        \/ CleanupJobRuns(c)
        \/ CleanupJobRaises(c)

SpecSchedFair == Init /\ [][NextSched]_vars /\ WF_vars(JobProgress)

-----------------------------------------------------------------------------
(* _estimate_quality_score over every coverage dict *)

InitQuality ==
    /\ InitStore
    /\ assembly \in {[IdleAssembly EXCEPT !.coverage = c] :
                        c \in [CoverageKeys -> BOOLEAN]}
    /\ store_ret = None

NextQuality == EstimateQuality

SpecQuality == InitQuality /\ [][NextQuality]_vars

(* One build_symbol_contexts call over the sources of the day *)

NextAssemble ==
    \/ AssembleStart
    \/ \E src \in SourceChoices, db_ok \in BOOLEAN : AssembleSymbol(src, db_ok)
    \/ \E db_ok \in BOOLEAN : AssembleFinish(db_ok)

SpecAssemble == Init /\ [][NextAssemble]_vars

(* A ledger that already holds BatchRows predictions of earlier agent runs,
   under evaluation passes that may die half way *)

BatchRow(day, h, trigger, status, created) ==
    IF status = "pending"
    THEN NewOutcome("600519", "CN", strftime(day), h, trigger, created)
    ELSE [NewOutcome("600519", "CN", strftime(day), h, trigger, created)
             EXCEPT !.outcome_status = status,
                    !.outcome_price = Some(110),
                    !.evaluated_at = Some(0)]

(* created_at of the rows in the order of their ids: the same second for
   all, or one second apart *)
BatchStamps == {[id \in 1..BatchRows |-> 0], [id \in 1..BatchRows |-> id]}

BatchLedgers ==
    {[id \in 1..BatchRows |->
        BatchRow(day[id], h[id], Some(100), status[id], created[id])] :
        day \in [1..BatchRows -> 0..1], h \in [1..BatchRows -> {1, 2}],
        status \in [1..BatchRows -> {"pending", "no_base_price"}],
        created \in BatchStamps}

InitBatch ==
    /\ InitRest
    /\ outcomes \in BatchLedgers
    /\ outcome_seq = BatchRows
    /\ assembly = IdleAssembly
    /\ store_ret = None

NextBatch ==
    \/ PublishClose({110})
    \/ AdvanceDay(EvalMaxDay)
    \/ EvalList("api")
    \/ EvalRow("api")
    \/ Crash("api")

SpecBatch == InitBatch /\ [][NextBatch]_vars

(* The store writes, each with a commit that goes through or fails, under
   their callers: an agent that records its run and its prediction, the
   assembler, and an evaluation pass *)

NextPersist ==
    \/ AssembleStart
    \/ \E db_ok \in BOOLEAN : AssembleSymbol(AllSources, db_ok)
    \/ \E db_ok \in BOOLEAN : AssembleFinish(db_ok)
    \/ \E db_ok \in BOOLEAN : SaveContextRunWith(AssemblyAgent, db_ok)
    \/ \E db_ok \in BOOLEAN : SavePredictionWith(1, Some(100), db_ok)
    \/ PublishClose({110})
    \/ AdvanceDay(EvalMaxDay)
    \/ EvalList("api")
    \/ EvalRow("api")

SpecPersist == Init /\ [][NextPersist]_vars

(* Agent runs that record up to RecordRows predictions, with passes that
   evaluate them *)

NextRecord ==
    \/ \E h \in HorizonInputs, db_ok \in BOOLEAN :
          SavePredictionUpTo(RecordRows, h, Some(100), db_ok)
    \/ PublishClose({110})
    \/ AdvanceDay(EvalMaxDay)
    \/ EvalList("api")
    \/ EvalRow("api")

SpecRecord == Init /\ [][NextRecord]_vars

(* The scheduled passes, one after the other for ever, over a ledger that
   holds more pending rows than one pass lists. The ledgers of the model
   hold up to RecordRows rows, so the limit of a pass, 300 rows by default,
   is scaled down with them to LimitInScale rows. Every fetch and every
   commit of these passes goes through. *)

LimitInScale == 1

ScheduledPass ==
    \/ EvalListWith("loop", DefaultMaxHorizon, LimitInScale)
    \/ EvalRowWith("loop", TRUE, TRUE)

NextStarve ==
    \/ SavePredictionUpTo(RecordRows, 1, Some(100), TRUE)
    \/ PublishClose({110})
    \/ AdvanceDay(MaxDay)
    \/ ScheduledPass

SpecStarve == Init /\ [][NextStarve]_vars /\ WF_vars(ScheduledPass)

(* Agent runs that store up to RecordRows context runs, among the other
   writers of the store and cleanups with either context-run window *)

NextRuns ==
    \/ \E agent \in Agents, db_ok \in BOOLEAN :
          SaveContextRunUpTo(RecordRows, agent, db_ok)
    \/ AdvanceDay(MaxDay)
    \/ \E crd \in Windows :
          Cleanup(DefaultSnapshotDays, DefaultSnapshotDays, crd, DefaultOutcomeRetention)
    \/ AssembleStart
    \/ AssembleSymbol(AllSources, TRUE)
    \/ AssembleFinish(TRUE)
    \/ SavePredictionWith(1, None, TRUE)

SpecRuns == Init /\ [][NextRuns]_vars

(* save_news_topic_snapshot called on its own, with the default window on
   every day and a window of one day on the first *)

TopicDates == {strftime(d) : d \in 0..SnapMaxDay}
TopicWindows == {1, DefaultHistoryDays}
TopicSentiments == {"", "bullish"}
TopicSymbols == {<<>>, Watchlist}

(* the payload: symbols or [], summary or "", topics or [],
   sentiment or "neutral", coverage or {} *)
TopicPayload(symbols, summary, tps, sentiment, coverage) ==
    [symbols |-> symbols,
     body |-> [summary |-> summary, topics |-> tps,
               sentiment |-> IF sentiment = "" THEN "neutral" ELSE sentiment,
               coverage |-> to_jsonable(coverage)]]

(* the whole of save_news_topic_snapshot: SELECT by (snapshot_date,
   window_days), set the five fields of the row found or add a row, commit *)
SaveTopicWith(snapshot_date, window_days, symbols, sentiment, db_ok) ==
    /\ LET payload == TopicPayload(symbols, "", <<>>, sentiment, None)
           key == <<snapshot_date, window_days>>
           existing == FirstWith(topics, TopicKeys(topics), key)
           row == TopicRow(snapshot_date, window_days, payload.symbols, payload.body)
           new == IF IsNone(existing) THEN row
                  ELSE [Val(existing).row EXCEPT !.symbols = row.symbols,
                                                 !.body = row.body]
           r == UpsertCommit(topics, topic_seq, TopicKeys(topics), key,
                             existing, new, db_ok)
       IN  /\ topics' = r.tbl
           /\ topic_seq' = r.seq
           /\ store_ret' = Some([fn |-> "save_news_topic_snapshot", ok |-> r.ret])
    /\ UNCHANGED <<news, kline, assembly, today, quotes, sched, ledger, evalp, cleanup_ret,
                   snapshots, snapshot_seq, runs, run_seq, buildp>>

NextTopics ==
    \E snapshot_date \in TopicDates, window_days \in TopicWindows,
       symbols \in TopicSymbols, sentiment \in TopicSentiments, db_ok \in BOOLEAN :
          /\ window_days = 1 => snapshot_date = strftime(0)
          /\ SaveTopicWith(snapshot_date, window_days, symbols, sentiment, db_ok)

SpecTopics == Init /\ [][NextTopics]_vars

-----------------------------------------------------------------------------
(* news_ranker *)

MaxItems == 3

(* a news item: the fields news_ranker reads; content tells apart two items
   that share a key *)
NewsItem(source, external_id, title, content, importance, symbols, time) ==
    [source |-> source, external_id |-> external_id, title |-> title,
     content |-> content, importance |-> importance, symbols |-> symbols,
     time |-> time]

(* str(value or "") *)
Str(value) == IF IsNone(value) THEN "" ELSE Val(value)

(* a deduplication that keeps the last item of every key *)
DedupeKeepLast(items) ==
    LET keep == {i \in DOMAIN items :
                    \A j \in (i + 1)..Len(items) :
                       <<Str(items[j].source), Str(items[j].external_id), Str(items[j].title)>>
                          # <<Str(items[i].source), Str(items[i].external_id), Str(items[i].title)>>}
        nth(k) == CHOOSE i \in keep : Cardinality({j \in keep : j <= i}) = k
    IN  [k \in 1..Cardinality(keep) |-> items[nth(k)]]

(* key = (source, external_id, title) *)
NewsKey(it) == <<Str(it.source), Str(it.external_id), Str(it.title)>>

(* the loop of dedupe_news_items from item i on *)
RECURSIVE DedupeLoop(_, _, _, _)
DedupeLoop(items, i, seen, out) ==
    IF i > Len(items) THEN out
    ELSE IF NewsKey(items[i]) \in seen
         THEN DedupeLoop(items, i + 1, seen, out)
         ELSE DedupeLoop(items, i + 1, seen \cup {NewsKey(items[i])},
                         Append(out, items[i]))

dedupe_news_items(items) == DedupeLoop(items, 1, {}, <<>>)

(* lists of at most MaxItems items of a set *)
ListsOf(S) == UNION {[1..n -> S] : n \in 0..MaxItems}

(* items of three sources, two of which give the same key, with two titles
   and two contents *)
DedupeItems ==
    {NewsItem(source, Some("1"), title, content, 0, <<>>, None) :
        source \in {None, Some(""), Some("sina")},
        title \in {Some("T"), Some("U")},
        content \in {"a", "b"}}

NewsDedupe ==
    /\ news.pc = "new"
    /\ news' = [news EXCEPT !.pc = "deduped", !.out = dedupe_news_items(news.items)]
    /\ UNCHANGED <<kline, store_ret, assembly, today, quotes, sched, ledger, evalp,
                   cleanup_ret, context, buildp>>

(* the output is deduplicated once more *)
NewsDedupeAgain ==
    /\ news.pc = "deduped"
    /\ news' = [news EXCEPT !.pc = "twice", !.again = dedupe_news_items(news.out)]
    /\ UNCHANGED <<kline, store_ret, assembly, today, quotes, sched, ledger, evalp,
                   cleanup_ret, context, buildp>>

InitDedupe ==
    /\ InitCore
    /\ outcomes = <<>> /\ outcome_seq = 0
    /\ assembly = IdleAssembly /\ store_ret = None
    /\ kline = IdleKline
    /\ news \in {[IdleNews EXCEPT !.pc = "new", !.items = items] :
                    items \in ListsOf(DedupeItems)}

NextDedupe == NewsDedupe \/ NewsDedupeAgain

SpecDedupe == InitDedupe /\ [][NextDedupe]_vars

(* rank_news_items *)

(* a time string with its year ("%Y-%m-%d %H:%M") and one without
   ("%m/%d %H:%M", as daily_report writes it) *)
FullTime(day) == Some([fmt |-> "full", day |-> day])
MonthDayTime(doy) == Some([fmt |-> "md", day |-> doy])

(* a time string in none of the formats parse_news_time knows *)
TextTime == Some([fmt |-> "text", day |-> 0])

(* parse_news_time at a moment of day `now`: an empty string is None, a
   string in no known format is None, a string without a year gets the year
   of the clock *)
parse_news_time(value, now) ==
    IF IsNone(value) THEN None
    ELSE IF Val(value).fmt = "text" THEN None
    ELSE IF Val(value).fmt = "full" THEN Some(Val(value).day)
    ELSE Some(YearOf(now) * YearLen + Val(value).day)

(* datetime.timestamp(): the time since the epoch, which is day -1 of the
   calendar; negative for a day before it *)
Timestamp(day) == day + 1

(* the titles of the model and the words they hold *)
MajorTitles == {"major", "major notice"}
NoticeTitles == {"notice", "major notice"}

(* str() of a list of codes: "['BA', 'BABA']", "[]" for the empty list *)
RECURSIVE ReprItems(_, _)
ReprItems(symbols, k) ==
    IF k > Len(symbols) THEN ""
    ELSE (IF k > 1 THEN ", " ELSE "") \o "'" \o symbols[k] \o "'"
         \o ReprItems(symbols, k + 1)

StrOfList(symbols) == "[" \o ReprItems(symbols, 1) \o "]"

(* a in b on two strings: a is a run of characters of b *)
InText(a, b) ==
    \E i \in 1..(Len(b) - Len(a) + 1) : SubSeq(b, i, i + Len(a) - 1) = a

(* the key function of rank_news_items *)
rank_score(it, symbol, now) ==
    LET title == Str(it.title)
        s == it.importance * 5
             + (IF symbol # "" /\ InText(symbol, StrOfList(it.symbols))
                THEN 2 ELSE 0)
             + (IF title \in MajorTitles THEN 2 ELSE 0)
             + (IF title \in NoticeTitles THEN 1 ELSE 0)
        ts == parse_news_time(it.time, now)
        s2 == IF IsNone(ts) THEN 0 ELSE Timestamp(Val(ts))
    IN  <<s, s2>>

(* a < b on two keys, as tuples compare *)
KeyLess(a, b) == a[1] < b[1] \/ (a[1] = b[1] /\ a[2] < b[2])

(* the place of a new key in a list of keys sorted high to low: before the
   first key that is lower *)
InsertAt(keys, key) ==
    IF \E k \in DOMAIN keys : KeyLess(keys[k], key)
    THEN CHOOSE k \in DOMAIN keys :
            /\ KeyLess(keys[k], key)
            /\ \A j \in 1..(k - 1) : ~KeyLess(keys[j], key)
    ELSE Len(keys) + 1

Insert(seq, k, x) == SubSeq(seq, 1, k - 1) \o <<x>> \o SubSeq(seq, k, Len(seq))

(* sorted(items, key=score, reverse=True): a stable sort, each item is put
   behind the items before it that do not compare lower *)
RECURSIVE SortedLoop(_, _, _, _, _, _)
SortedLoop(items, symbol, now, i, keys, out) ==
    IF i > Len(items) THEN out
    ELSE LET key == rank_score(items[i], symbol, now)
             k == InsertAt(keys, key)
         IN  SortedLoop(items, symbol, now, i + 1,
                        Insert(keys, k, key), Insert(out, k, items[i]))

rank_news_items(items, symbol, now) == SortedLoop(items, symbol, now, 1, <<>>, <<>>)

(* two items that tie when the symbol is given, one whose time has no year,
   two that differ in content only, one without a time *)
RankItems ==
    {NewsItem(Some("sina"), Some("1"), Some("T"), "a", 1, <<>>, FullTime(1)),
     NewsItem(Some("sina"), Some("2"), Some("major notice"), "b", 0, <<"600519">>, FullTime(1)),
     NewsItem(Some("sina"), Some("3"), Some("T"), "c", 0, <<>>, MonthDayTime(0)),
     NewsItem(Some("sina"), Some("4"), Some("T"), "d", 0, <<>>, FullTime(3)),
     NewsItem(Some("sina"), Some("5"), Some("T"), "e", 0, <<>>, FullTime(3)),
     NewsItem(Some("sina"), Some("6"), Some("T"), "f", 0, <<>>, None)}

NewsRank ==
    /\ news.pc = "new"
    /\ news' = [news EXCEPT !.pc = "ranked",
                            !.out = rank_news_items(news.items, news.symbol, today)]
    /\ UNCHANGED <<kline, store_ret, assembly, today, quotes, sched, ledger, evalp,
                   cleanup_ret, context, buildp>>

(* the same list is ranked once more *)
NewsRankAgain ==
    /\ news.pc = "ranked"
    /\ news' = [news EXCEPT !.pc = "twice",
                            !.again = rank_news_items(news.items, news.symbol, today)]
    /\ UNCHANGED <<kline, store_ret, assembly, today, quotes, sched, ledger, evalp,
                   cleanup_ret, context, buildp>>

InitRank ==
    /\ InitCore
    /\ outcomes = <<>> /\ outcome_seq = 0
    /\ assembly = IdleAssembly /\ store_ret = None
    /\ kline = IdleKline
    /\ news \in {[IdleNews EXCEPT !.pc = "new", !.symbol = symbol, !.items = items] :
                    symbol \in {"", "600519"}, items \in ListsOf(RankItems)}

NextRank == NewsRank \/ NewsRankAgain \/ AdvanceDay(YearLen)

SpecRank == InitRank /\ [][NextRank]_vars

-----------------------------------------------------------------------------
(* kline_context.build_kline_history_context *)

MaxKlines == 62

(* the closes that 5, 20 and 60 sessions back are counted from the end *)
BackPlaces == {6, 21, 61}

(* a place, counted from the end, at which a kline may lack its close *)
GapPlace == 3

(* a series of n klines with closes all different, 0 at the places `zeros`
   from the end and, with `gap`, no close at GapPlace *)
KlineSeries(n, zeros, gap) ==
    [i \in 1..n |->
        [close |-> IF gap /\ n - i + 1 = GapPlace THEN None
                   ELSE IF (n - i + 1) \in zeros THEN Some(0)
                   ELSE Some(100 + i)]]

(* closes = [float(k.close) for k in klines if k.close is not None] *)
Closes(klines) ==
    LET HasClose(k) == ~IsNone(k.close)
        with == SelectSeq(klines, HasClose)
    IN  [i \in DOMAIN with |-> Val(with[i].close)]

(* closes[-n + 1], the close one place too late *)
BackOffByOne(closes, n) ==
    IF Len(closes) >= n THEN Some(closes[Len(closes) - n + 2]) ELSE None

(* closes[-n] if len(closes) >= n else None *)
Back(closes, n) ==
    IF Len(closes) >= n THEN Some(closes[Len(closes) - n + 1]) ELSE None

(* _pct: the float (a - b) / b * 100 as a fraction *)
pct(a, b) ==
    IF IsNone(a) \/ IsNone(b) \/ Val(b) = 0 THEN None
    ELSE Some([num |-> (Val(a) - Val(b)) * 100, den |-> Val(b)])

(* the returns among the features build_kline_history_context computes *)
build_kline_history_context(klines) ==
    IF klines = <<>> THEN [available |-> FALSE, error |-> "no klines"]
    ELSE LET closes == Closes(klines)
             current == IF closes # <<>> THEN Some(closes[Len(closes)]) ELSE None
         IN  [available |-> TRUE,
              ret_5d |-> pct(current, Back(closes, 6)),
              ret_20d |-> pct(current, Back(closes, 21)),
              ret_60d |-> pct(current, Back(closes, 61))]

BuildKlineHistory ==
    /\ kline.pc = "new"
    /\ kline' = [kline EXCEPT !.pc = "done",
                              !.features = Some(build_kline_history_context(kline.klines))]
    /\ UNCHANGED <<news, store_ret, assembly, today, quotes, sched, ledger, evalp,
                   cleanup_ret, context, buildp>>

InitKline ==
    /\ InitCore
    /\ outcomes = <<>> /\ outcome_seq = 0
    /\ assembly = IdleAssembly /\ store_ret = None
    /\ news = IdleNews
    /\ kline \in {[IdleKline EXCEPT !.pc = "new", !.klines = KlineSeries(n, zeros, gap)] :
                     n \in 0..MaxKlines, zeros \in SUBSET BackPlaces, gap \in BOOLEAN}

NextKline == BuildKlineHistory

SpecKline == InitKline /\ [][NextKline]_vars

-----------------------------------------------------------------------------
(* What the claims speak of *)

(* the calendar day a stored date names *)
DayOf(d) == d.day

(* the day on which a prediction matures *)
MaturesOn(r) == DayOf(r.prediction_date) + Max(1, r.horizon_days)

Terminal(r) == r.outcome_status # "pending"

(* the klines of a series dated on or before a day, and the latest of them *)
ClosesUpTo(series, day) == {k \in series : DayOf(k.date) <= day}
LatestOf(klines) ==
    CHOOSE k \in klines : \A j \in klines : DayOf(j.date) <= DayOf(k.date)

(* the row a pass is about to process *)
Current(p) == evalp[p].pending[evalp[p].i]

(* the base price the claims name: the trigger price when positive, else the
   latest close on or before the prediction day; a sequence of length 0 or 1 *)
ClaimedBase(rec, series) ==
    IF ~IsNone(rec.trigger_price) /\ Val(rec.trigger_price) > 0
    THEN rec.trigger_price
    ELSE IF ClosesUpTo(series, DayOf(rec.prediction_date)) = {} THEN None
    ELSE Some(LatestOf(ClosesUpTo(series, DayOf(rec.prediction_date))).close)

-----------------------------------------------------------------------------
(* C1: under passes that run concurrently, a row that has left pending is
   never written again: its outcome_status, outcome_price,
   outcome_return_pct and evaluated_at stay as the first terminal write left
   them. *)
C1_TerminalNeverOverwritten ==
    [][\A id \in DOMAIN outcomes :
          (Terminal(outcomes[id]) /\ id \in DOMAIN outcomes')
          => /\ outcomes'[id].outcome_status = outcomes[id].outcome_status
             /\ outcomes'[id].outcome_price = outcomes[id].outcome_price
             /\ outcomes'[id].outcome_return_pct = outcomes[id].outcome_return_pct
             /\ outcomes'[id].evaluated_at = outcomes[id].evaluated_at]_vars

(* C2: when passes run one after another, a terminal row keeps every field
   under all later passes, and no pass lists a row that is not pending. *)
C2_TerminalRowsFrozen ==
    [][/\ \A id \in DOMAIN outcomes :
             Terminal(outcomes[id])
             => id \in DOMAIN outcomes' /\ outcomes'[id] = outcomes[id]
       /\ \A p \in EvalThreads :
             (evalp[p].pc # "run" /\ evalp'[p].pc = "run")
             => \A i \in DOMAIN evalp'[p].pending :
                   /\ evalp'[p].pending[i].id \in DOMAIN outcomes
                   /\ ~Terminal(outcomes[evalp'[p].pending[i].id])]_vars

(* a later pass has run over a ledger that holds a terminal row *)
C2_Witness ==
    /\ evalp["api"].pc = "done"
    /\ evalp["api"].stats.total_pending = 0
    /\ \E id \in DOMAIN outcomes : Terminal(outcomes[id])

(* C3: a row changes only when prediction_date + max(1, horizon_days) <= today;
   a listed row that matures after today is counted in skipped_not_due and
   stays pending and unchanged; a prediction of day 0 with horizon 5 is not
   due on day 2 and is due on day 5. *)
C3_NoEarlyMaturity ==
    [][/\ \A id \in DOMAIN outcomes \cap DOMAIN outcomes' :
             outcomes'[id] # outcomes[id] => MaturesOn(outcomes[id]) <= today
       /\ \A p \in EvalThreads, f, d \in BOOLEAN :
             (EvalRowWith(p, f, d) /\ MaturesOn(Current(p)) > today)
             => /\ evalp'[p].stats.skipped_not_due
                      = evalp[p].stats.skipped_not_due + 1
                /\ evalp'[p].stats.eligible = evalp[p].stats.eligible
                /\ outcomes' = outcomes
                /\ ~Terminal(outcomes'[Current(p).id])
       /\ NotDue([prediction_date |-> strftime(0), horizon_days |-> 5], 2)
       /\ ~NotDue([prediction_date |-> strftime(0), horizon_days |-> 5], 5)]_vars

(* a pass has returned after skipping a row that is not due yet *)
C3_Witness ==
    /\ evalp["api"].pc = "done"
    /\ evalp["api"].stats.skipped_not_due = 1
    /\ \E id \in DOMAIN outcomes :
          ~Terminal(outcomes[id]) /\ MaturesOn(outcomes[id]) > today

(* C4: a due row with an outcome price P (the latest close on or before the
   target day) and a valid base price B becomes evaluated with
   outcome_price = P and outcome_return_pct = (P - B) / B * 100. *)
C4_EvaluatedReturn ==
    [][\A p \in EvalThreads, f, d \in BOOLEAN :
          EvalRowWith(p, f, d)
          => LET rec == Current(p)
                 series == SeriesFor(evalp[p], rec, f)
                 upto == ClosesUpTo(series, MaturesOn(rec))
                 B == ClaimedBase(rec, series)
             IN  (/\ MaturesOn(rec) <= evalp[p].today
                  /\ upto # {}
                  /\ ~IsNone(B) /\ Val(B) > 0
                  /\ d /\ rec.id \in DOMAIN outcomes)
                 => LET row == outcomes'[rec.id]
                        P == LatestOf(upto).close
                    IN  /\ row.outcome_status = "evaluated"
                        /\ row.outcome_price = Some(P)
                        /\ ~IsNone(row.outcome_return_pct)
                        /\ Val(row.outcome_return_pct).den # 0
                        /\ Val(row.outcome_return_pct).num * Val(B)
                              = (P - Val(B)) * 100 * Val(row.outcome_return_pct).den]_vars

(* trigger 100 and a matured close of 110 have given 10.0 *)
C4_Witness ==
    \E id \in DOMAIN outcomes :
        /\ outcomes[id].trigger_price = Some(100)
        /\ outcomes[id].outcome_status = "evaluated"
        /\ outcomes[id].outcome_price = Some(110)
        /\ Val(outcomes[id].outcome_return_pct).num
              = 10 * Val(outcomes[id].outcome_return_pct).den

(* C5: a due row with an outcome price and no valid base price (no positive
   trigger price, and no close on or before the prediction day or one that is
   <= 0) becomes no_base_price with outcome_price set and a null
   outcome_return_pct. *)
C5_NoBasePrice ==
    [][\A p \in EvalThreads, f, d \in BOOLEAN :
          EvalRowWith(p, f, d)
          => LET rec == Current(p)
                 series == SeriesFor(evalp[p], rec, f)
                 upto == ClosesUpTo(series, MaturesOn(rec))
                 B == ClaimedBase(rec, series)
             IN  (/\ MaturesOn(rec) <= evalp[p].today
                  /\ upto # {}
                  /\ (IsNone(B) \/ Val(B) <= 0)
                  /\ d /\ rec.id \in DOMAIN outcomes)
                 => LET row == outcomes'[rec.id]
                    IN  /\ row.outcome_status = "no_base_price"
                        /\ row.outcome_price = Some(LatestOf(upto).close)
                        /\ IsNone(row.outcome_return_pct)
                        /\ ~IsNone(row.evaluated_at)]_vars

(* a row without trigger price and without a close up to its prediction day
   has become no_base_price *)
C5_Witness ==
    \E id \in DOMAIN outcomes :
        /\ IsNone(outcomes[id].trigger_price)
        /\ ClosesUpTo(quotes[outcomes[id].stock_symbol],
                      DayOf(outcomes[id].prediction_date)) = {}
        /\ outcomes[id].outcome_status = "no_base_price"
        /\ ~IsNone(outcomes[id].outcome_price)
        /\ IsNone(outcomes[id].outcome_return_pct)

(* C6: a due row whose series holds no close on or before the target day
   (also when the fetch raised) is counted in skipped_no_price and keeps every
   field; a pass whose series holds such a close makes it terminal. *)
C6_NoPriceIsRetried ==
    [][\A p \in EvalThreads, f, d \in BOOLEAN :
          EvalRowWith(p, f, d)
          => LET rec == Current(p)
                 series == SeriesFor(evalp[p], rec, f)
                 upto == ClosesUpTo(series, MaturesOn(rec))
             IN  MaturesOn(rec) <= evalp[p].today
                 => /\ upto = {}
                       => /\ evalp'[p].stats.skipped_no_price
                                = evalp[p].stats.skipped_no_price + 1
                          /\ evalp'[p].stats.evaluated = evalp[p].stats.evaluated
                          /\ outcomes' = outcomes
                    /\ (upto # {} /\ d /\ rec.id \in DOMAIN outcomes)
                       => /\ Terminal(outcomes'[rec.id])
                          /\ evalp'[p].stats.skipped_no_price
                                = evalp[p].stats.skipped_no_price]_vars

(* one pass has skipped the row for want of a price and another has made it
   terminal *)
C6_Witness ==
    /\ evalp["loop"].pc = "done"
    /\ evalp["loop"].stats.skipped_no_price = 1
    /\ evalp["loop"].stats.evaluated = 0
    /\ evalp["api"].pc = "done"
    /\ evalp["api"].stats.evaluated = 1
    /\ \E id \in DOMAIN outcomes :
          Terminal(outcomes[id]) /\ outcomes[id].evaluated_at = Some(today)

(* C7, as claimed: a due prediction that lacks an outcome price is never
   removed from the ledger while it is still pending. *)
C7_PendingNeverRemoved ==
    [][\A id \in DOMAIN outcomes :
          (/\ ~Terminal(outcomes[id])
           /\ MaturesOn(outcomes[id]) <= today
           /\ ClosesUpTo(quotes[outcomes[id].stock_symbol],
                         MaturesOn(outcomes[id])) = {})
          => id \in DOMAIN outcomes']_vars

(* C7, amended: no step of an evaluation pass removes a row; a row leaves the
   ledger only in a cleanup, and only when its prediction_date is before
   today - max(1, outcome_days), whatever its status. *)
C7_OnlyCleanupRemovesByDate ==
    [][/\ evalp' # evalp => DOMAIN outcomes \subseteq DOMAIN outcomes'
       /\ \A id \in DOMAIN outcomes \ DOMAIN outcomes' :
             \E od \in Windows :
                /\ Cleanup(DefaultSnapshotDays, DefaultSnapshotDays,
                           DefaultSnapshotDays, od)
                /\ DayOf(outcomes[id].prediction_date) < today - Max(1, od)]_vars

(* a cleanup has removed the row that the last pass had skipped for want of
   a price, so while it was pending *)
C7_Witness ==
    /\ cleanup_ret.agent_prediction_outcomes = 1
    /\ outcome_seq = 1
    /\ DOMAIN outcomes = {}
    /\ evalp["api"].pc = "done"
    /\ evalp["api"].stats.skipped_no_price = 1

(* C8: a save that follows another for the same key leaves exactly one row
   with that key, holding the payload and quality of the later save; rows
   with other keys are unchanged. *)
C8_SecondSaveOverwrites ==
    [][\A b \in Builders, d \in BOOLEAN :
          (BuildWriteWith(b, d) /\ d)
          => LET st == buildp[b]
                 key == <<Watchlist[st.i], "CN", st.snapshot_date, st.agent_name>>
                 same == {id \in DOMAIN snapshots' :
                             SnapshotKey(snapshots'[id]) = key}
             IN  /\ Cardinality(same) = 1
                 /\ \A id \in same :
                       /\ snapshots'[id].payload.doc = Val(st.payload).doc
                       /\ snapshots'[id].quality.doc = Val(st.quality).doc
                 /\ \A id \in DOMAIN snapshots :
                       SnapshotKey(snapshots[id]) # key
                       => /\ id \in DOMAIN snapshots'
                          /\ snapshots'[id] = snapshots[id]
                 /\ buildp'[b].ret = Some(TRUE)]_vars

(* the second save of a key has replaced a different payload, beside a row
   with another key *)
C8_Witness ==
    /\ buildp["b1"].pc = "topic"
    /\ buildp["b1"].ret = Some(TRUE)
    /\ ~IsNone(buildp["b1"].existing)
    /\ Val(buildp["b1"].existing).row.payload.doc # Val(buildp["b1"].payload).doc
    /\ Cardinality(DOMAIN snapshots) = 2
    /\ \E id \in DOMAIN snapshots :
          /\ id = Val(buildp["b1"].existing).id
          /\ snapshots[id].payload.doc = Val(buildp["b1"].payload).doc

(* C9: under two saves of one key that run concurrently, no state holds two
   rows with the key and every save returns True. *)
C9_ConcurrentSavesSucceed ==
    /\ \A i, j \in DOMAIN snapshots :
          SnapshotKey(snapshots[i]) = SnapshotKey(snapshots[j]) => i = j
    /\ \A b \in Builders : buildp[b].ret # Some(FALSE)

(* C10: a cleanup removes from each table exactly the rows dated before
   today - max(1, days) of that table's own window, and leaves the other rows
   as they were. *)
KeptExactly(before, after, field, days) ==
    /\ DOMAIN after =
          {id \in DOMAIN before :
              ~(DayOf(before[id][field]) < today - Max(1, days))}
    /\ \A id \in DOMAIN after : after[id] = before[id]

C10_CleanupByCutoff ==
    [][\A w \in WindowChoices :
          Cleanup(w[1], w[2], w[3], w[4])
          => /\ KeptExactly(snapshots, snapshots', "snapshot_date", w[1])
             /\ KeptExactly(topics, topics', "snapshot_date", w[2])
             /\ KeptExactly(runs, runs', "analysis_date", w[3])
             /\ KeptExactly(outcomes, outcomes', "prediction_date", w[4])]_vars

(* a cleanup has removed a snapshot and kept a newer one, and kept a
   prediction as old as the snapshot it removed *)
C10_Witness ==
    /\ cleanup_ret.stock_context_snapshots = 1
    /\ cleanup_ret.agent_prediction_outcomes = 0
    /\ DOMAIN snapshots # {}
    /\ \E id \in DOMAIN outcomes :
          DayOf(outcomes[id].prediction_date) < today - 1

(* C11: the counts a cleanup_context_data call returns are the numbers of rows
   the call removed from each table, also when the call failed and rolled
   back (then every count is 0). *)
C11_CountsMatchRemoved ==
    [][(\E w \in WindowChoices :
           \/ Cleanup(w[1], w[2], w[3], w[4])
           \/ \E done \in 0..4 : CleanupFails(w[1], w[2], w[3], w[4], done))
       => /\ cleanup_ret'.stock_context_snapshots
                = Cardinality(DOMAIN snapshots \ DOMAIN snapshots')
          /\ cleanup_ret'.news_topic_snapshots
                = Cardinality(DOMAIN topics \ DOMAIN topics')
          /\ cleanup_ret'.agent_context_runs
                = Cardinality(DOMAIN runs \ DOMAIN runs')
          /\ cleanup_ret'.agent_prediction_outcomes
                = Cardinality(DOMAIN outcomes \ DOMAIN outcomes')]_vars

-----------------------------------------------------------------------------
(* the calls of a method that are inside its body *)
InBody(method) == {c \in Calls : c[1] = method /\ sched.calls[c].pc = "body"}

(* C12: never are two invocations of _evaluate_job inside the evaluation body
   together, nor two of _cleanup_job inside the cleanup body; an invocation
   that finds its flag set returns and changes nothing. *)
C12_SingleFlight ==
    [][/\ (Cardinality(InBody("_evaluate_job")) <= 1)'
       /\ (Cardinality(InBody("_cleanup_job")) <= 1)'
       /\ \A c \in Jobs \X {1, 2} :
             (JobCheck(c) /\ FlagOf(c[1])) => UNCHANGED vars]_vars

(* one invocation of _evaluate_job is in its pass, flag set, while the other
   has not run *)
C12_Witness ==
    /\ sched.calls[<<"_evaluate_job", 1>>].pc = "body"
    /\ sched.evaluating
    /\ evalp["loop"].pc = "run"
    /\ sched.calls[<<"_evaluate_job", 2>>].pc = "idle"

(* C13: a job's flag is set exactly while an invocation of the job is inside
   the body, so it is cleared when the body returns and when it raises; and a
   flag that is set is cleared again. *)
C13_FlagReleased ==
    /\ [](sched.evaluating <=> InBody("_evaluate_job") # {})
    /\ [](sched.cleaning <=> InBody("_cleanup_job") # {})
    /\ (sched.evaluating ~> ~sched.evaluating)
    /\ (sched.cleaning ~> ~sched.cleaning)

(* an evaluation job has gone through its pass and released its flag, and a
   cleanup job is inside its body *)
C13_Witness ==
    /\ ~sched.evaluating
    /\ InBody("_evaluate_job") = {}
    /\ InBody("evaluate_once") = {}
    /\ evalp["loop"].pc = "done"
    /\ evalp["loop"].stats.skipped_not_due = 1
    /\ sched.cleaning

(* C14: while an evaluation job is in its body the scheduler can start the
   cleanup job, and while a cleanup job is in its body it can start the
   evaluation job. *)
C14_JobsIndependent ==
    /\ (InBody("_evaluate_job") # {} /\ ~sched.cleaning)
       => ENABLED JobCheck(<<"_cleanup_job", 1>>)
    /\ (InBody("_cleanup_job") # {} /\ ~sched.evaluating)
       => ENABLED JobCheck(<<"_evaluate_job", 1>>)

(* C15: never are two evaluations started through _evaluate_job or
   evaluate_once inside their bodies together, nor two cleanups started
   through _cleanup_job or cleanup_once. *)
C15_OneRunPerJobType ==
    /\ Cardinality(InBody("_evaluate_job") \cup InBody("evaluate_once")) <= 1
    /\ Cardinality(InBody("_cleanup_job") \cup InBody("cleanup_once")) <= 1

-----------------------------------------------------------------------------
(* the points a missing source costs *)
Penalty ==
    [quote |-> 35, technical |-> 25, kline_history |-> 10, news_realtime |-> 15,
     news_extended |-> 10, history_news |-> 10, events |-> 5]

(* C16: for every assignment of the seven coverage flags the score is
   100 minus the penalties of the flags that are false, clamped to 0..100; it
   is 100 when all flags are true and 0 when all are false. *)
C16_QualityScore ==
    assembly.pc = "scored" =>
        LET c == assembly.coverage
            miss(k) == IF c[k] THEN 0 ELSE Penalty[k]
            total == 100 - miss("quote") - miss("technical")
                         - miss("kline_history") - miss("news_realtime")
                         - miss("news_extended") - miss("history_news")
                         - miss("events")
            score == Val(assembly.score)
        IN  /\ score = IF total < 0 THEN 0 ELSE IF total > 100 THEN 100 ELSE total
            /\ score \in 0..100
            /\ (\A k \in CoverageKeys : c[k]) => score = 100
            /\ (\A k \in CoverageKeys : ~c[k]) => score = 0

(* the score of the coverage with every flag false, where the clamp acts *)
C16_Witness ==
    /\ assembly.pc = "scored"
    /\ \A k \in CoverageKeys : ~assembly.coverage[k]
    /\ assembly.score = Some(0)

(* C17: whatever the sources of a symbol do, the round of the loop for that
   symbol ends with the symbol's context built, its coverage flags telling
   which sources failed and its score below 100 when one did, and the loop
   goes on with the next symbol. *)
C17_SourceFailureNotFatal ==
    [][\A src \in SourceChoices, db_ok \in BOOLEAN :
          AssembleSymbol(src, db_ok) =>
              /\ assembly'.pc = "loop"
              /\ assembly'.i = assembly.i + 1
              /\ Len(assembly'.symbol_contexts) = assembly.i
              /\ LET ctx == assembly'.symbol_contexts[assembly.i]
                 IN  /\ ctx.symbol = Watchlist2[assembly.i]
                     /\ ctx.data_quality.coverage.kline_history = (src.kline = "ok")
                     /\ ctx.data_quality.coverage.quote = (src.pack /\ src.quote)
                     /\ (src # AllSources) => ctx.data_quality.score < 100]_vars

(* C18: a store write whose commit fails leaves its table as it was and
   returns False, for the snapshot, the topic, the context run, the
   prediction and the mark; and the assembler adds the context of a symbol
   and returns the contexts it built whatever its saves returned. *)
C18_PersistenceFailureContained ==
    [][/\ \A src \in SourceChoices, db_ok \in BOOLEAN :
             (AssembleSymbol(src, db_ok) /\ src.kline # "raises") =>
                 /\ assembly'.symbol_contexts =
                       Append(assembly.symbol_contexts,
                              SymbolContext(Watchlist2[assembly.i], src))
                 /\ ~db_ok => /\ snapshots' = snapshots
                              /\ assembly'.saved = Append(assembly.saved, FALSE)
       /\ \A db_ok \in BOOLEAN :
             AssembleFinish(db_ok) =>
                 /\ Val(assembly'.ret).symbols = assembly.symbol_contexts
                 /\ ~db_ok => /\ topics' = topics
                              /\ assembly'.saved = Append(assembly.saved, FALSE)
       /\ \A agent \in Agents :
             SaveContextRunWith(agent, FALSE) =>
                 /\ runs' = runs
                 /\ Val(store_ret').ok = FALSE
       /\ \A h \in HorizonInputs \cup {1}, trigger \in TriggerPrices :
             SavePredictionWith(h, trigger, FALSE) =>
                 /\ outcomes' = outcomes
                 /\ Val(store_ret').ok = FALSE
       /\ \A p \in EvalThreads, fetch_ok \in BOOLEAN :
             EvalRowWith(p, fetch_ok, FALSE) =>
                 /\ outcomes' = outcomes
                 /\ evalp'[p].stats.evaluated = evalp[p].stats.evaluated]_vars

(* a build that returned both contexts although the first snapshot and the
   topic were not saved, after a prediction could not be saved *)
C18_Witness ==
    /\ assembly.pc = "done"
    /\ assembly.saved = <<FALSE, TRUE, FALSE>>
    /\ Len(Val(assembly.ret).symbols) = Len(Watchlist2)
    /\ Cardinality(DOMAIN snapshots) = 1
    /\ topics = <<>>
    /\ store_ret = Some([fn |-> "save_agent_prediction_outcome", ok |-> FALSE])

(* C19: every mark of a pass is in the table as soon as it is made, so when a
   pass dies after some rows, the rows it marked are terminal, the rows it
   had not reached are pending and as they were listed, and the invocation
   that follows lists none of the terminal rows and changes none of them. *)
C19_CrashMidBatchSafe ==
    /\ [](\A p \in EvalThreads :
            evalp[p].pending # <<>> =>
                LET st == evalp[p]
                IN  /\ Cardinality({j \in 1..(st.i - 1) :
                                      Terminal(outcomes[st.pending[j].id])})
                          = st.stats.evaluated
                    /\ \A j \in st.i..Len(st.pending) :
                          /\ outcomes[st.pending[j].id].outcome_status = "pending"
                          /\ outcomes[st.pending[j].id].outcome_price = None
                          /\ outcomes[st.pending[j].id].evaluated_at = None
                          /\ Detached(outcomes, st.pending[j].id) = st.pending[j])
    /\ [][/\ \A p \in EvalThreads :
                (evalp[p].pc = "done" /\ evalp[p].pending # <<>>
                                      /\ evalp'[p] # evalp[p])
                => /\ outcomes' = outcomes
                   /\ \A j \in DOMAIN evalp'[p].pending :
                         ~Terminal(outcomes[evalp'[p].pending[j].id])
          /\ \A id \in DOMAIN outcomes :
                Terminal(outcomes[id]) => outcomes'[id] = outcomes[id]]_vars

(* a pass over two rows died after it had marked the first *)
C19_Witness ==
    /\ evalp["api"].pc = "done"
    /\ Len(evalp["api"].pending) = 2
    /\ evalp["api"].i = 2
    /\ evalp["api"].stats.evaluated = 1
    /\ Terminal(outcomes[evalp["api"].pending[1].id])
    /\ ~Terminal(outcomes[evalp["api"].pending[2].id])

(* C20: whatever the ledger holds, every list the query can return holds only
   pending rows with a horizon within max_horizon_days and a prediction date
   up to today, in ascending order of (prediction_date, created_at), and it
   is the first `limit` rows of that order: as many rows as match, up to
   limit, and no matching row left out comes before a returned one. *)
C20_ListPending ==
    \A h \in {1, DefaultMaxHorizon}, limit \in {1, DefaultLimit} :
        /\ list_pending_prediction_outcomes(outcomes, h, limit) # {}
        /\ \A lst \in list_pending_prediction_outcomes(outcomes, h, limit) :
              LET Matches(id) ==
                      /\ outcomes[id].outcome_status = "pending"
                      /\ outcomes[id].horizon_days <= h
                      /\ DayOf(outcomes[id].prediction_date) <= today
                  Before(a, b) ==
                      \/ DayOf(outcomes[a].prediction_date)
                            < DayOf(outcomes[b].prediction_date)
                      \/ /\ DayOf(outcomes[a].prediction_date)
                               = DayOf(outcomes[b].prediction_date)
                         /\ outcomes[a].created_at < outcomes[b].created_at
                  listed == {lst[i].id : i \in DOMAIN lst}
                  matching == {id \in DOMAIN outcomes : Matches(id)}
              IN  /\ listed \subseteq matching
                  /\ \A i, j \in DOMAIN lst : i < j =>
                        /\ lst[i].id # lst[j].id
                        /\ ~Before(lst[j].id, lst[i].id)
                  /\ Len(lst) = Min(limit, Cardinality(matching))
                  /\ \A id \in matching \ listed, i \in DOMAIN lst :
                        ~Before(id, lst[i].id)

(* a pass listed with limit 1 the earlier dated of two matching rows, which
   is the one inserted later *)
C20_Witness ==
    /\ evalp["api"].pc = "run"
    /\ evalp["api"].i = 1
    /\ Len(evalp["api"].pending) = 1
    /\ Cardinality(PendingFilter(outcomes, DefaultMaxHorizon)) = 2
    /\ \E id \in PendingFilter(outcomes, DefaultMaxHorizon) :
          /\ id < evalp["api"].pending[1].id
          /\ DayOf(outcomes[id].prediction_date)
                > DayOf(evalp["api"].pending[1].prediction_date)

(* C21: a save_agent_prediction_outcome call that succeeds adds one row under
   a new id, pending, with a horizon of at least 1 and no outcome price,
   return or evaluation time, and leaves every other row as it was; calls
   with the same arguments add a row each. *)
C21_RecordAddsOnePendingRow ==
    [][\A h \in HorizonInputs, trigger \in TriggerPrices :
          SavePredictionUpTo(RecordRows, h, trigger, TRUE) =>
              /\ \A id \in DOMAIN outcomes :
                    id \in DOMAIN outcomes' /\ outcomes'[id] = outcomes[id]
              /\ Cardinality(DOMAIN outcomes' \ DOMAIN outcomes) = 1
              /\ \A id \in DOMAIN outcomes' \ DOMAIN outcomes :
                    /\ outcomes'[id].outcome_status = "pending"
                    /\ outcomes'[id].horizon_days >= 1
                    /\ outcomes'[id].outcome_price = None
                    /\ outcomes'[id].outcome_return_pct = None
                    /\ outcomes'[id].evaluated_at = None
                    /\ outcomes'[id].prediction_date = strftime(today)
                    /\ outcomes'[id].trigger_price = trigger]_vars

(* two saves with the same arguments in the same second left two rows that
   agree in every field; the last save was given a horizon of 0 *)
C21_Witness ==
    /\ DOMAIN outcomes = {1, 2}
    /\ outcomes[1] = outcomes[2]
    /\ outcomes[1].horizon_days = 1
    /\ store_ret = Some([fn |-> "save_agent_prediction_outcome", ok |-> TRUE])

(* C22: a save_agent_context_run call that succeeds adds one row and leaves
   the others as they are; no step changes a field of a context run; rows
   appear only through that save, and a row disappears only in a cleanup,
   its analysis_date being before the day max(1, context_run_days) days
   ago. *)
C22_ContextRunsAppendOnly ==
    [][/\ \A id \in DOMAIN runs \cap DOMAIN runs' : runs'[id] = runs[id]
       /\ \A id \in DOMAIN runs \ DOMAIN runs' :
             \E crd \in Windows :
                /\ Cleanup(DefaultSnapshotDays, DefaultSnapshotDays, crd,
                           DefaultOutcomeRetention)
                /\ DayOf(runs[id].analysis_date) < today - Max(1, crd)
       /\ (\E agent \in Agents : SaveContextRunUpTo(RecordRows, agent, TRUE))
             <=> Cardinality(DOMAIN runs' \ DOMAIN runs) = 1
       /\ Cardinality(DOMAIN runs' \ DOMAIN runs) <= 1
       /\ (DOMAIN runs' \ DOMAIN runs # {}) => DOMAIN runs \subseteq DOMAIN runs']_vars

(* a second context run was stored after a cleanup had removed the first *)
C22_Witness ==
    /\ DOMAIN runs = {2}
    /\ store_ret = Some([fn |-> "save_agent_context_run", ok |-> TRUE])
    /\ cleanup_ret.agent_context_runs = 1

(* C23: the news topic table never holds two rows with the same
   (snapshot_date, window_days); a save_news_topic_snapshot call that
   succeeds leaves the row of its key holding its symbols, summary, topics,
   sentiment and coverage, a call that fails leaves the table as it was, and
   no call changes a row of another key. *)
C23_OneTopicRowPerKey ==
    /\ [](\A i, j \in DOMAIN topics :
             (/\ topics[i].snapshot_date = topics[j].snapshot_date
              /\ topics[i].window_days = topics[j].window_days) => i = j)
    /\ [][\A snapshot_date \in TopicDates, window_days \in TopicWindows,
             symbols \in TopicSymbols, sentiment \in TopicSentiments, db_ok \in BOOLEAN :
             SaveTopicWith(snapshot_date, window_days, symbols, sentiment, db_ok) =>
                /\ \A id \in DOMAIN topics :
                      (topics[id].snapshot_date # snapshot_date
                         \/ topics[id].window_days # window_days \/ ~store_ret'[1].ok)
                         => (id \in DOMAIN topics' /\ topics'[id] = topics[id])
                /\ store_ret'[1].ok =>
                      \E id \in DOMAIN topics' :
                         /\ topics'[id] =
                               [snapshot_date |-> snapshot_date, window_days |-> window_days,
                                symbols |-> symbols,
                                body |-> [summary |-> "", topics |-> <<>>,
                                          sentiment |-> IF sentiment = "" THEN "neutral"
                                                        ELSE sentiment,
                                          coverage |-> EmptyDict]]
                         /\ DOMAIN topics' \ DOMAIN topics \subseteq {id}
                /\ ~store_ret'[1].ok => topics' = topics]_vars

(* a day's row was saved again with other content beside a row of the same
   day with the other window *)
C23_Witness ==
    /\ Cardinality(DOMAIN topics) = 2
    /\ topic_seq = 2
    /\ \A id \in DOMAIN topics : topics[id].snapshot_date = strftime(0)
    /\ topics[1].window_days = DefaultHistoryDays
    /\ topics[1].body.sentiment = "bullish"
    /\ topics[1].symbols = Watchlist
    /\ topics[2].symbols = <<>>
    /\ store_ret = Some([fn |-> "save_news_topic_snapshot", ok |-> TRUE])

(* C24: dedupe_news_items returns, in input order, the first item of every
   (source, external_id, title) key of the input: no two items of the output
   share a key, every key of the input is a key of the output, and
   deduplicating the output returns it unchanged. *)
C24_FirstIndexes ==
    {i \in DOMAIN news.items :
        \A j \in 1..(i - 1) :
           \/ Str(news.items[j].source) # Str(news.items[i].source)
           \/ Str(news.items[j].external_id) # Str(news.items[i].external_id)
           \/ Str(news.items[j].title) # Str(news.items[i].title)}

C24_DedupeFirstOccurrences ==
    news.pc \in {"deduped", "twice"} =>
       /\ Len(news.out) = Cardinality(C24_FirstIndexes)
       /\ \A i \in C24_FirstIndexes :
             news.out[Cardinality({j \in C24_FirstIndexes : j <= i})] = news.items[i]
       /\ \A a, b \in DOMAIN news.out :
             (/\ Str(news.out[a].source) = Str(news.out[b].source)
              /\ Str(news.out[a].external_id) = Str(news.out[b].external_id)
              /\ Str(news.out[a].title) = Str(news.out[b].title)) => a = b
       /\ \A i \in DOMAIN news.items : \E a \in DOMAIN news.out :
             /\ Str(news.out[a].source) = Str(news.items[i].source)
             /\ Str(news.out[a].external_id) = Str(news.items[i].external_id)
             /\ Str(news.out[a].title) = Str(news.items[i].title)
       /\ news.pc = "twice" => news.again = news.out

(* three items, the second a later item with the key of the first (source
   None and source "") and another content, were reduced to two *)
C24_Witness ==
    /\ news.pc = "twice"
    /\ Len(news.items) = 3
    /\ news.items[1].source = None /\ news.items[2].source = Some("")
    /\ news.items[1].title = news.items[2].title
    /\ news.items[1].content # news.items[2].content
    /\ news.items[3].title # news.items[1].title
    /\ news.out = <<news.items[1], news.items[3]>>

(* the output of one rank_news_items call is the input reordered, keys high
   to low, items of equal key in input order *)
SortedStable(items, out, keys) ==
    /\ Len(out) = Len(items)
    /\ \E pi \in [DOMAIN items -> DOMAIN items] :
          /\ \A a, b \in DOMAIN items : pi[a] = pi[b] => a = b
          /\ \A k \in DOMAIN items : out[k] = items[pi[k]]
          /\ \A k \in 1..(Len(items) - 1) :
                /\ ~KeyLess(keys[pi[k]], keys[pi[k + 1]])
                /\ keys[pi[k]] = keys[pi[k + 1]] => pi[k] < pi[k + 1]

(* every single call sorts: by the keys of some day of the calendar the
   output is sorted and stable *)
RankSortsEachCall ==
    /\ news.pc \in {"ranked", "twice"} =>
          \E now \in 0..YearLen :
             SortedStable(news.items, news.out,
                          [i \in DOMAIN news.items |-> rank_score(news.items[i], news.symbol, now)])
    /\ news.pc = "twice" =>
          \E now \in 0..YearLen :
             SortedStable(news.items, news.again,
                          [i \in DOMAIN news.items |-> rank_score(news.items[i], news.symbol, now)])

(* C25: rank_news_items returns a permutation of its input sorted
   non-increasing by (score, recency) in which items of equal key keep their
   input order, and ranking the same list twice gives the same order. *)
C25_RankDeterministic ==
    /\ RankSortsEachCall
    /\ news.pc = "twice" => news.again = news.out

(* the return over n - 1 sessions is null when there are fewer than n
   closes or the n-th close from the end is 0, and else the fraction
   (latest - back) / back * 100 with back the n-th close from the end *)
ReturnOver(ret, closes, n) ==
    IF Len(closes) < n THEN ret = None
    ELSE LET back == closes[Len(closes) - n + 1]
             latest == closes[Len(closes)]
         IN  IF back = 0 THEN ret = None
             ELSE /\ ret # None
                  /\ Val(ret).den # 0
                  /\ Val(ret).num * back = (latest - back) * 100 * Val(ret).den

(* C26: ret_5d is null with fewer than 6 closes or a 6th-from-last close of
   0 and else (latest - that close) / that close * 100; ret_20d and ret_60d
   likewise with the 21st and the 61st close from the end. *)
C26_ReturnsOverSessions ==
    kline.pc = "done" =>
       LET f == Val(kline.features)
           closes == [i \in DOMAIN Closes(kline.klines) |-> Closes(kline.klines)[i]]
       IN  IF f.available
           THEN /\ ReturnOver(f.ret_5d, closes, 6)
                /\ ReturnOver(f.ret_20d, closes, 21)
                /\ ReturnOver(f.ret_60d, closes, 61)
           ELSE Len(closes) < 6

(* 62 klines with closes: the 60-session return starts at the second, the
   20-session return is there and the 5-session return is null for a close
   of 0 *)
C26_Witness ==
    /\ kline.pc = "done"
    /\ Len(kline.klines) = 62
    /\ \A i \in 1..62 : kline.klines[i].close # None
    /\ kline.klines[57].close = Some(0)
    /\ Val(kline.features).ret_5d = None
    /\ Val(kline.features).ret_20d # None
    /\ Val(kline.features).ret_60d = Some([num |-> (162 - 102) * 100, den |-> 102])

(* the row is pending, within the horizon of the pass, has a valid date, is
   due and its symbol has a close on or before its target day *)
Evaluable(id) ==
    /\ id \in DOMAIN outcomes
    /\ outcomes[id].outcome_status = "pending"
    /\ outcomes[id].horizon_days <= DefaultMaxHorizon
    /\ ~IsNone(parse_day(outcomes[id].prediction_date))
    /\ MaturesOn(outcomes[id]) <= today
    /\ \E k \in quotes[outcomes[id].stock_symbol] : DayOf(k.date) <= MaturesOn(outcomes[id])

(* C27: under repeated scheduled passes every pending row that is due, has
   a valid date, a horizon within max_horizon and a close on or before its
   target day, eventually becomes terminal, however many older pending rows
   are skipped ahead of it. *)
C27_EvaluableEventuallyTerminal ==
    \A id \in 1..RecordRows :
       Evaluable(id) ~> (id \in DOMAIN outcomes /\ Terminal(outcomes[id]))

(* C28: a call evaluate_pending(max_horizon_days = h, limit) lists only
   rows that are pending with horizon_days <= h and that have fewer than
   `limit` such rows before them in (prediction_date, created_at) order, at
   most `limit` of them; it writes no row but the listed row it is at, so
   every other row stays unchanged, and it neither inserts nor deletes. *)
C28_EvaluateFrame ==
    [][/\ \A h \in HorizonArgs("api"), limit \in LimitArgs("api") :
             EvalListWith("api", h, limit) =>
                /\ outcomes' = outcomes
                /\ Len(evalp'["api"].pending) <= limit
                /\ \A i \in DOMAIN evalp'["api"].pending :
                      LET id == evalp'["api"].pending[i].id
                      IN  /\ outcomes[id].outcome_status = "pending"
                          /\ outcomes[id].horizon_days <= h
                          /\ Cardinality(
                                {j \in DOMAIN outcomes :
                                    /\ outcomes[j].outcome_status = "pending"
                                    /\ outcomes[j].horizon_days <= h
                                    /\ OrderedBefore(outcomes, j, id)}) < limit
       /\ \A f, d \in BOOLEAN :
             EvalRowWith("api", f, d) =>
                /\ DOMAIN outcomes' = DOMAIN outcomes
                /\ \A id \in DOMAIN outcomes :
                      id # evalp["api"].pending[evalp["api"].i].id
                         => outcomes'[id] = outcomes[id]
       /\ DOMAIN outcomes' = DOMAIN outcomes
       /\ outcome_seq' = outcome_seq]_vars

(* a pass with limit 1 has evaluated the first of two pending rows of one
   day and one horizon, and has returned; the second is as it was *)
C28_Witness ==
    /\ evalp["api"].pc = "done"
    /\ evalp["api"].stats.total_pending = 1
    /\ evalp["api"].stats.evaluated = 1
    /\ outcomes[1].outcome_status = "evaluated"
    /\ outcomes[2] = BatchRow(0, 1, Some(100), "pending", 2)
    /\ outcomes[1].prediction_date = outcomes[2].prediction_date
    /\ outcomes[1].horizon_days = outcomes[2].horizon_days

(* C29: a stored context snapshot whose snapshot_date is before the current
   date is written by no build_symbol_contexts pass, also not by one that
   started before midnight and saves after it: in every step of the builds
   such a row stays in the table with its payload and quality. *)
C29_PastSnapshotsImmutable ==
    [][\A id \in DOMAIN snapshots :
          DayOf(snapshots[id].snapshot_date) < today
          => /\ id \in DOMAIN snapshots'
             /\ snapshots'[id].payload = snapshots[id].payload
             /\ snapshots'[id].quality = snapshots[id].quality]_vars

(* C30: cleanup_context_data is all-or-nothing over the four tables: a call
   in which a DELETE or the commit fails leaves every table as it was before
   the call, and a step in which any table loses a row is a call that has
   applied the cutoff of each of the four tables. *)
C30_CleanupAllOrNothing ==
    [][/\ (\E w \in WindowChoices, done \in 0..4 :
              CleanupFails(w[1], w[2], w[3], w[4], done))
          => /\ snapshots' = snapshots
             /\ topics' = topics
             /\ runs' = runs
             /\ outcomes' = outcomes
       /\ (\/ DOMAIN snapshots \ DOMAIN snapshots' # {}
           \/ DOMAIN topics \ DOMAIN topics' # {}
           \/ DOMAIN runs \ DOMAIN runs' # {}
           \/ DOMAIN outcomes \ DOMAIN outcomes' # {})
          => \E w \in WindowChoices :
                /\ KeptExactly(snapshots, snapshots', "snapshot_date", w[1])
                /\ KeptExactly(topics, topics', "snapshot_date", w[2])
                /\ KeptExactly(runs, runs', "analysis_date", w[3])
                /\ KeptExactly(outcomes, outcomes', "prediction_date", w[4])]_vars

(* a cleanup failed after its first DELETE had counted a snapshot: the
   snapshot, and a context run as old, are still in their tables *)
C30_Witness ==
    /\ today = 2
    /\ cleanup_ret.stock_context_snapshots = 1
    /\ cleanup_ret.agent_context_runs = 0
    /\ \E id \in DOMAIN snapshots : DayOf(snapshots[id].snapshot_date) = 0
    /\ \E id \in DOMAIN runs : DayOf(runs[id].analysis_date) = 0

(* C31: within one evaluate_pending invocation the price source is asked at
   most once per symbol: a due row whose symbol is in the cache is priced
   from the cached series, whatever the source would return now, also when
   the cached series is the empty one of a failed fetch; a fetch, failed or
   not, is cached for the rows that follow; and every invocation starts
   with an empty cache. *)
C31_FetchOncePerInvocation ==
    [][/\ \A h \in HorizonArgs("api"), limit \in LimitArgs("api") :
             EvalListWith("api", h, limit)
             => \A s \in Symbols : IsNone(evalp'["api"].kline_cache[s])
       /\ \A f, d \in BOOLEAN :
             EvalRowWith("api", f, d) =>
                LET st == evalp["api"]
                    rec == Current("api")
                    s == rec.stock_symbol
                    due == MaturesOn(rec) <= st.today
                    goes_on == evalp'["api"].pc = "run"
                IN  /\ (due /\ ~IsNone(st.kline_cache[s])) =>
                          LET upto == ClosesUpTo(Val(st.kline_cache[s]), MaturesOn(rec))
                          IN  /\ upto = {} =>
                                    /\ outcomes' = outcomes
                                    /\ evalp'["api"].stats.skipped_no_price
                                          = st.stats.skipped_no_price + 1
                              /\ (upto # {} /\ d) =>
                                    outcomes'[rec.id].outcome_price
                                       = Some(LatestOf(upto).close)
                              /\ goes_on => evalp'["api"].kline_cache = st.kline_cache
                    /\ (due /\ IsNone(st.kline_cache[s]) /\ goes_on) =>
                          evalp'["api"].kline_cache[s]
                             = Some(IF f THEN {k \in quotes[s] : DayOf(k.date) <= today}
                                    ELSE {})
                    /\ (~due /\ goes_on) => evalp'["api"].kline_cache = st.kline_cache]_vars

(* a pass whose fetch failed is at its second row with the empty series in
   its cache while the source holds a close *)
C31_Witness ==
    /\ evalp["api"].pc = "run"
    /\ evalp["api"].i = 2
    /\ evalp["api"].kline_cache["600519"] = Some({})
    /\ quotes["600519"] # {}
    /\ MaturesOn(Current("api")) <= evalp["api"].today
    /\ \E k \in quotes["600519"] : DayOf(k.date) <= MaturesOn(Current("api"))

-----------------------------------------------------------------------------
(* A ledger of predictions that are months old, written in either of the
   two date formats _parse_day accepts, on a day PassDay *)

OldDay == 30
PassDay == 160

LookbackDates ==
    {[fmt |-> f, day |-> day] : f \in {"iso", "slash"}, day \in {OldDay, OldDay + 3}}

LookbackLedgers ==
    {[id \in 1..BatchRows |->
        NewOutcome("600519", "CN", d[id], 1, Some(100), created[id])] :
        d \in [1..BatchRows -> LookbackDates], created \in BatchStamps}

(* the source holds one old close, dated OldDay days before the oldest
   prediction day of the ledger *)
(* the state on a later day: a ledger of earlier agent runs and a source
   that holds the given closes *)
InitLedgerAt(day, klines, ledgers) ==
    /\ today = day
    /\ quotes = [s \in Symbols |-> klines]
    /\ evalp = [p \in EvalThreads |-> IdlePass]
    /\ cleanup_ret = NoDeleted
    /\ snapshots = <<>> /\ snapshot_seq = 0
    /\ topics = <<>> /\ topic_seq = 0
    /\ runs = <<>> /\ run_seq = 0
    /\ buildp = [b \in Builders |-> IdleBuild]
    /\ sched = IdleSched
    /\ news = IdleNews /\ kline = IdleKline
    /\ outcomes \in ledgers
    /\ outcome_seq = BatchRows
    /\ assembly = IdleAssembly
    /\ store_ret = None

InitLookback ==
    InitLedgerAt(PassDay - 1, {[date |-> strftime(1), close |-> 110]}, LookbackLedgers)

NextLookback ==
    \/ AdvanceDay(PassDay)
    \/ EvalList("api")
    \/ EvalRow("api")

SpecLookback == InitLookback /\ [][NextLookback]_vars

(* the first row of a pass's list that is due and of a symbol: the row the
   pass computes the lookback of that symbol from *)
FirstDueOf(st, s) ==
    LET due == {j \in 1..Len(st.pending) :
                  /\ st.pending[j].stock_symbol = s
                  /\ ~IsNone(parse_day(st.pending[j].prediction_date))
                  /\ MaturesOn(st.pending[j]) <= st.today}
    IN  st.pending[CHOOSE j \in due : \A k \in due : j <= k]

(* C32: for every due row a pass processes, the series it is priced from was
   requested with a lookback of at least min(600, max(120, age + 30)) days
   for the age of that row, the lookback being the one of the first due row
   of the symbol in the list. *)
C32_LookbackCoversRow ==
    [][\A f, d \in BOOLEAN :
          EvalRowWith("api", f, d) =>
             LET st == evalp["api"]
                 rec == Current("api")
             IN  MaturesOn(rec) <= st.today =>
                    LookbackDays(st.today,
                                 DayOf(FirstDueOf(st, rec.stock_symbol).prediction_date))
                       >= LookbackDays(st.today, DayOf(rec.prediction_date))]_vars

-----------------------------------------------------------------------------
(* A ledger in which some prediction_date is a text that _parse_day rejects:
   a date written with dots, "%Y.%m.%d" *)

BadDates ==
    {[fmt |-> f, day |-> day] : f \in {"iso", "dot"}, day \in {0, YearLen}}

BadDateLedgers ==
    {[id \in 1..BatchRows |->
        NewOutcome("600519", "CN", d[id], 1, Some(100), id)] :
        d \in [1..BatchRows -> BadDates]}

InitBadDate ==
    InitLedgerAt(2 * YearLen, {[date |-> strftime(0), close |-> 110]}, BadDateLedgers)

NextBadDate ==
    \/ PublishClose({110})
    \/ AdvanceDay(2 * YearLen + 1)
    \/ EvalList("api")
    \/ EvalRow("api")
    \/ Crash("api")

SpecBadDate == InitBadDate /\ [][NextBadDate]_vars

(* C33: a pending row whose prediction_date does not parse is counted in
   skipped_invalid_date and in no other counter, the ledger is left as it
   is, and the pass goes on to the next row of its list, or returns its
   counters when the row was the last one. *)
C33_InvalidDateSkipped ==
    [][\A f, d \in BOOLEAN :
          (EvalRowWith("api", f, d)
             /\ Current("api").prediction_date.fmt \notin {"iso", "slash"}) =>
             LET st == evalp["api"]
                 after == evalp'["api"]
             IN  /\ outcomes' = outcomes
                 /\ after.stats = [st.stats EXCEPT !.skipped_invalid_date = @ + 1]
                 /\ IF st.i < Len(st.pending)
                    THEN /\ after.pc = "run"
                         /\ after.i = st.i + 1
                         /\ after.pending = st.pending
                         /\ after.kline_cache = st.kline_cache
                    ELSE after.pc = "done"]_vars

(* a pass has returned that skipped a dot-dated row, which is still
   pending, and evaluated the row listed after it *)
C33_Witness ==
    /\ evalp["api"].pc = "done"
    /\ evalp["api"].stats.skipped_invalid_date = 1
    /\ evalp["api"].stats.evaluated = 1
    /\ \E a, b \in DOMAIN outcomes :
          /\ outcomes[a].prediction_date = [fmt |-> "dot", day |-> 0]
          /\ outcomes[a].outcome_status = "pending"
          /\ outcomes[b].prediction_date = strftime(YearLen)
          /\ outcomes[b].outcome_status = "evaluated"

-----------------------------------------------------------------------------
(* rank_news_items on items of one score whose times lie on both sides of
   the epoch *)

EpochItems ==
    {NewsItem(Some("sina"), Some("1"), Some("T"), "a", 0, <<>>, TextTime),
     NewsItem(Some("sina"), Some("2"), Some("T"), "b", 0, <<>>, None),
     NewsItem(Some("sina"), Some("3"), Some("T"), "c", 0, <<>>, FullTime(-3)),
     NewsItem(Some("sina"), Some("4"), Some("T"), "d", 1, <<>>, FullTime(-3)),
     NewsItem(Some("sina"), Some("5"), Some("T"), "e", 0, <<>>, FullTime(1))}

InitEpoch ==
    /\ InitCore
    /\ outcomes = <<>> /\ outcome_seq = 0
    /\ assembly = IdleAssembly /\ store_ret = None
    /\ kline = IdleKline
    /\ news \in {[IdleNews EXCEPT !.pc = "new", !.items = items] :
                    items \in ListsOf(EpochItems)}

SpecEpoch == InitEpoch /\ [][NextRank]_vars

(* C34: in a ranked list no item whose time does not parse comes before an
   item of the same score whose time parses, whatever that time is, one
   before the epoch included. *)
C34_UnparseableTimeLast ==
    news.pc \in {"ranked", "twice"} =>
       \A i, j \in DOMAIN news.out :
          (/\ i < j
           /\ rank_score(news.out[i], news.symbol, 0)[1]
                 = rank_score(news.out[j], news.symbol, 0)[1]
           /\ IsNone(parse_news_time(news.out[i].time, 0)))
          => IsNone(parse_news_time(news.out[j].time, 0))

-----------------------------------------------------------------------------
(* rank_news_items for a symbol whose letters are part of another code *)

BonusItems ==
    {NewsItem(Some("sina"), Some("1"), Some("T"), "a", 0, <<>>, FullTime(1)),
     NewsItem(Some("sina"), Some("2"), Some("T"), "b", 0, <<"BA">>, FullTime(1)),
     NewsItem(Some("sina"), Some("3"), Some("T"), "c", 0, <<"BABA">>, FullTime(1)),
     NewsItem(Some("sina"), Some("4"), Some("notice"), "d", 0, <<"JD", "BA">>, FullTime(1)),
     NewsItem(Some("sina"), Some("5"), Some("T"), "e", 1, <<"JD">>, FullTime(1))}

InitBonus ==
    /\ InitCore
    /\ outcomes = <<>> /\ outcome_seq = 0
    /\ assembly = IdleAssembly /\ store_ret = None
    /\ kline = IdleKline
    /\ news \in {[IdleNews EXCEPT !.pc = "new", !.symbol = symbol, !.items = items] :
                    symbol \in {"", "BA", "JD"}, items \in ListsOf(BonusItems)}

SpecBonus == InitBonus /\ [][NextRank]_vars

(* what the symbol adds to the score of an item *)
SymbolBonus(it, symbol) == rank_score(it, symbol, 0)[1] - rank_score(it, "", 0)[1]

(* C35: the symbol adds 2 to the score of an item when the ranked symbol is
   not empty and is an element of the item's symbols list, and nothing
   otherwise: an item that only lists another code of which the symbol is a
   part gets no bonus. *)
C35_BonusForListedSymbol ==
    news.pc \in {"ranked", "twice"} =>
       \A i \in DOMAIN news.out :
          SymbolBonus(news.out[i], news.symbol)
             = IF /\ news.symbol # ""
                  /\ \E k \in DOMAIN news.out[i].symbols :
                        news.out[i].symbols[k] = news.symbol
               THEN 2 ELSE 0

-----------------------------------------------------------------------------
(* ContextBuilder._build_snapshot_memory *)

SampleLimit == 12
MemRows == 14

(* get_recent_stock_context_snapshots: the rows of the symbol and market,
   and of the context type when one is given, dated on or after the cutoff,
   newest first, the first `limit` of them *)
RecentFilter(tbl, symbol, market, context_type, days) ==
    {id \in DOMAIN tbl :
        /\ tbl[id].symbol = symbol
        /\ tbl[id].market = market
        /\ StrLessEq(strftime(today - Max(days, 1)), tbl[id].snapshot_date)
        /\ context_type # "" => tbl[id].context_type = context_type}

(* ORDER BY snapshot_date DESC: every order in which no row comes before
   a newer one *)
RECURSIVE NewestFirst(_, _)
NewestFirst(tbl, ids) ==
    IF ids = {} THEN {<<>>}
    ELSE UNION {{<<id>> \o rest : rest \in NewestFirst(tbl, ids \ {id})} :
                  id \in {i \in ids :
                            \A j \in ids :
                               ~StrLess(tbl[i].snapshot_date, tbl[j].snapshot_date)}}

get_recent_stock_context_snapshots(tbl, symbol, market, context_type, days, limit) ==
    {[i \in DOMAIN Prefix(s, Max(1, limit)) |-> tbl[s[i]]] :
        s \in NewestFirst(tbl, RecentFilter(tbl, symbol, market, context_type, days))}

(* quality.get("score") of a row: None for a quality dict without one *)
ScoreOf(row) == IF row.quality = EmptyDict THEN None ELSE Some(row.quality.doc)

(* scores: the scores of the rows that have one, in the order of the rows *)
ScoresOf(rows) ==
    LET HasScore(r) == ~IsNone(ScoreOf(r))
        with == SelectSeq(rows, HasScore)
    IN  [i \in DOMAIN with |-> Val(ScoreOf(with[i]))]

RECURSIVE SumOf(_, _)
SumOf(scores, k) == IF k > Len(scores) THEN 0 ELSE scores[k] + SumOf(scores, k + 1)

(* round(sum(scores) / len(scores), 1), in tenths: the nearest tenth, the
   even one when the quotient lies half way *)
AvgTenths(scores) ==
    IF Len(scores) = 0 THEN 0
    ELSE LET n == SumOf(scores, 1) * 10
             d == Len(scores)
             q == n \div d
             r == n % d
         IN  IF 2 * r < d THEN q
             ELSE IF 2 * r > d THEN q + 1
             ELSE IF q % 2 = 0 THEN q ELSE q + 1

(* a trend that needs a delta of more than 5 *)
quality_trendStrict(scores) ==
    IF Len(scores) >= 2
    THEN LET delta == scores[1] - scores[Len(scores)]
         IN  IF delta > 5 THEN "improving"
             ELSE IF delta < -5 THEN "deteriorating"
             ELSE "flat"
    ELSE "flat"

(* trend: from delta = scores[0] - scores[-1] when there are two scores *)
quality_trend(scores) ==
    IF Len(scores) >= 2
    THEN LET delta == scores[1] - scores[Len(scores)]
         IN  IF delta >= 5 THEN "improving"
             ELSE IF delta <= -5 THEN "deteriorating"
             ELSE "flat"
    ELSE "flat"

(* the dict _build_snapshot_memory returns for the rows it got; the two
   payload summaries are left out, payloads having no content here *)
SnapshotMemory(rows, days) ==
    IF Len(rows) = 0 THEN None
    ELSE LET scores == ScoresOf(rows)
         IN  Some([window_days |-> Max(1, days),
                   sample_count |-> Len(rows),
                   latest_snapshot_date |-> rows[1].snapshot_date,
                   latest_quality_score |-> IF Len(scores) > 0 THEN scores[1] ELSE 0,
                   avg_quality_score |-> AvgTenths(scores),
                   quality_trend |-> quality_trend(scores)])

(* _build_snapshot_memory(symbol, market, context_type, days); a query that
   raises gives no rows *)
BuildSnapshotMemory(symbol, market, context_type, days, db_ok) ==
    /\ \E rows \in IF db_ok
                   THEN get_recent_stock_context_snapshots(
                           snapshots, symbol, market, context_type,
                           Max(1, days), SampleLimit)
                   ELSE {<<>>} :
          store_ret' = Some([fn |-> "_build_snapshot_memory",
                             memory |-> SnapshotMemory(rows, days)])
    /\ UNCHANGED <<news, kline, assembly, today, quotes, sched, ledger, evalp,
                   cleanup_ret, context, buildp>>

(* The snapshots of earlier days: n daily rows of one symbol and agent whose
   scores follow a pattern, some days without a score, and with them, or
   not, the rows of another symbol and of another agent *)
ScorePatterns == {"up", "down", "flat", "old_low", "gaps"}

PatternQuality(pat, day) ==
    IF pat = "up" THEN Doc(50 + day, FALSE)
    ELSE IF pat = "down" THEN Doc(80 - day, FALSE)
    ELSE IF pat = "flat" THEN Doc(60, FALSE)
    ELSE IF pat = "old_low" THEN Doc(IF day = 0 THEN 10 ELSE 60, FALSE)
    ELSE IF day % 2 = 0 THEN EmptyDict ELSE Doc(50 + 2 * day, FALSE)

MemoryRow(symbol, context_type, day, quality) ==
    [symbol |-> symbol, market |-> "CN", snapshot_date |-> strftime(day),
     context_type |-> context_type, payload |-> EmptyDict, quality |-> quality]

MemoryTables ==
    {[id \in 1..(IF others THEN 3 * n ELSE n) |->
        IF id <= n
        THEN MemoryRow("600519", "premarket_outlook", n - id, PatternQuality(pat, n - id))
        ELSE IF id <= 2 * n
        THEN MemoryRow("000001", "premarket_outlook", id - n - 1, Doc(5, FALSE))
        ELSE MemoryRow("600519", "daily_report", id - 2 * n - 1, Doc(95, FALSE))] :
        n \in 0..MemRows, pat \in ScorePatterns, others \in BOOLEAN}

MemoryWindows == {0, 3, 30}

InitMemory ==
    /\ today = MemRows
    /\ quotes = [s \in Symbols |-> {}]
    /\ evalp = [p \in EvalThreads |-> IdlePass]
    /\ cleanup_ret = NoDeleted
    /\ snapshots \in MemoryTables
    /\ snapshot_seq = Len(snapshots)
    /\ topics = <<>> /\ topic_seq = 0
    /\ runs = <<>> /\ run_seq = 0
    /\ buildp = [b \in Builders |-> IdleBuild]
    /\ sched = IdleSched
    /\ news = IdleNews /\ kline = IdleKline
    /\ outcomes = <<>> /\ outcome_seq = 0
    /\ assembly = IdleAssembly
    /\ store_ret = None

NextMemory ==
    \/ AdvanceDay(MemRows + 1)
    \/ \E context_type \in Agents, days \in MemoryWindows, db_ok \in BOOLEAN :
          BuildSnapshotMemory("600519", "CN", context_type, days, db_ok)

SpecMemory == InitMemory /\ [][NextMemory]_vars

(* the rows of a symbol, market and agent dated within the window, the
   SampleLimit newest of them, and those of them that carry a score *)
InWindow(symbol, market, context_type, days) ==
    {id \in DOMAIN snapshots :
        /\ snapshots[id].symbol = symbol
        /\ snapshots[id].market = market
        /\ snapshots[id].context_type = context_type
        /\ DayOf(snapshots[id].snapshot_date) >= today - Max(1, days)}

Sampled(own) ==
    {id \in own :
        Cardinality({j \in own : DayOf(snapshots[j].snapshot_date)
                                    > DayOf(snapshots[id].snapshot_date)}) < 12}

Scored(sample) == {id \in sample : snapshots[id].quality # EmptyDict}

Newest(ids) ==
    CHOOSE id \in ids : \A j \in ids :
        DayOf(snapshots[j].snapshot_date) <= DayOf(snapshots[id].snapshot_date)
Oldest(ids) ==
    CHOOSE id \in ids : \A j \in ids :
        DayOf(snapshots[j].snapshot_date) >= DayOf(snapshots[id].snapshot_date)

(* C36: _build_snapshot_memory samples at most 12 snapshots, all of the
   requested symbol, market and context type, newest first; quality_trend
   comes from delta = the most recent sampled score minus the oldest
   sampled score: improving when delta >= 5, deteriorating when
   delta <= -5, flat otherwise, and flat when fewer than two scores were
   sampled. *)
C36_MemorySamplesAndTrend ==
    [][\A context_type \in Agents, days \in MemoryWindows :
          BuildSnapshotMemory("600519", "CN", context_type, days, TRUE) =>
             LET sample == Sampled(InWindow("600519", "CN", context_type, days))
                 scored == Scored(sample)
                 delta == snapshots[Newest(scored)].quality.doc
                             - snapshots[Oldest(scored)].quality.doc
                 memory == Val(store_ret').memory
             IN  /\ \A rows \in get_recent_stock_context_snapshots(
                                   snapshots, "600519", "CN", context_type,
                                   Max(1, days), SampleLimit) :
                       /\ Len(rows) <= 12
                       /\ {rows[i] : i \in DOMAIN rows} = {snapshots[id] : id \in sample}
                       /\ \A i, j \in DOMAIN rows :
                             i < j => DayOf(rows[i].snapshot_date)
                                         > DayOf(rows[j].snapshot_date)
                 /\ IsNone(memory) <=> sample = {}
                 /\ sample # {} =>
                       /\ Val(memory).sample_count = Cardinality(sample)
                       /\ Val(memory).latest_snapshot_date
                             = snapshots[Newest(sample)].snapshot_date
                       /\ Val(memory).quality_trend
                             = IF Cardinality(scored) < 2 THEN "flat"
                               ELSE IF delta >= 5 THEN "improving"
                               ELSE IF delta <= -5 THEN "deteriorating"
                               ELSE "flat"]_vars

(* a memory of 12 samples out of more rows in the window, whose trend is
   flat although the oldest row of the window scores 50 less *)
C36_Witness ==
    /\ ~IsNone(store_ret)
    /\ Val(store_ret).fn = "_build_snapshot_memory"
    /\ ~IsNone(Val(store_ret).memory)
    /\ Val(Val(store_ret).memory).sample_count = 12
    /\ Val(Val(store_ret).memory).quality_trend = "flat"
    /\ Val(Val(store_ret).memory).window_days = 30
    /\ Len(snapshots) = 3 * MemRows
    /\ snapshots[MemRows].quality = Doc(10, FALSE)

(* the counters a pass returns add up *)
CountersAddUp(stats) ==
    /\ stats.total_pending
          = stats.eligible + stats.skipped_not_due + stats.skipped_invalid_date
    /\ stats.evaluated + stats.skipped_no_price <= stats.eligible

(* C37: the counters every evaluate_pending invocation returns satisfy
   total_pending = eligible + skipped_not_due + skipped_invalid_date,
   evaluated + skipped_no_price <= eligible and total_pending <= limit, and
   evaluated counts the rows the invocation changed from pending to a
   terminal status: each iteration adds one to it exactly when it changed
   its row from pending to terminal. *)
C37_CountersConsistent ==
    [][\A p \in EvalThreads :
          /\ \A h \in HorizonArgs(p), limit \in LimitArgs(p) :
                EvalListWith(p, h, limit) =>
                   /\ evalp'[p].stats.total_pending <= limit
                   /\ evalp'[p].pc = "done" => CountersAddUp(evalp'[p].stats)
          /\ \A f, d \in BOOLEAN :
                EvalRowWith(p, f, d) =>
                   LET id == Current(p).id
                       changed == /\ id \in DOMAIN outcomes
                                  /\ ~Terminal(outcomes[id])
                                  /\ Terminal(outcomes'[id])
                   IN  /\ evalp'[p].stats.total_pending = evalp[p].stats.total_pending
                       /\ evalp'[p].stats.evaluated
                             = evalp[p].stats.evaluated + (IF changed THEN 1 ELSE 0)
                       /\ evalp'[p].pc = "done" => CountersAddUp(evalp'[p].stats)]_vars

(* C38: every row of the ledger is pending, evaluated or no_base_price; a
   pending row has no outcome_price, outcome_return_pct or evaluated_at, an
   evaluated row has all three, a no_base_price row has outcome_price and
   evaluated_at and no outcome_return_pct. *)
C38_RowShape ==
    \A id \in DOMAIN outcomes :
       LET r == outcomes[id]
       IN  /\ r.outcome_status \in {"pending", "evaluated", "no_base_price"}
           /\ r.outcome_status = "pending" =>
                 /\ IsNone(r.outcome_price)
                 /\ IsNone(r.outcome_return_pct)
                 /\ IsNone(r.evaluated_at)
           /\ r.outcome_status = "evaluated" =>
                 /\ ~IsNone(r.outcome_price)
                 /\ ~IsNone(r.outcome_return_pct)
                 /\ ~IsNone(r.evaluated_at)
           /\ r.outcome_status = "no_base_price" =>
                 /\ ~IsNone(r.outcome_price)
                 /\ IsNone(r.outcome_return_pct)
                 /\ ~IsNone(r.evaluated_at)

(* a row marked no_base_price by one pass is the row another pass, which
   listed it while it was pending, is about to process *)
C38_Witness ==
    \E id \in DOMAIN outcomes :
       /\ outcomes[id].outcome_status = "no_base_price"
       /\ outcomes[id].outcome_price = Some(0)
       /\ \E p \in EvalThreads :
             /\ evalp[p].pc = "run"
             /\ Current(p).id = id

-----------------------------------------------------------------------------
(* A ledger of BatchRows predictions under an evaluation pass and retention
   cleanups that run while the pass is under way *)

NextRace ==
    \/ PublishClose({110})
    \/ AdvanceDay(MaxDay)
    \/ EvalList("api")
    \/ EvalRow("api")
    \/ \E od \in Windows :
          Cleanup(DefaultSnapshotDays, DefaultSnapshotDays, DefaultSnapshotDays, od)

SpecRace == InitBatch /\ [][NextRace]_vars

(* C39: when cleanup has deleted a row that a running pass had listed, the
   pass does not create the row again: the iteration on that row leaves the
   ledger as it is, does not count the row in evaluated, and the pass goes
   on with the next row of its list, or returns when it was the last. *)
C39_DeletedRowNotRecreated ==
    [][\A f, d \in BOOLEAN :
          (EvalRowWith("api", f, d) /\ Current("api").id \notin DOMAIN outcomes) =>
             LET st == evalp["api"]
                 after == evalp'["api"]
             IN  /\ outcomes' = outcomes
                 /\ after.stats.evaluated = st.stats.evaluated
                 /\ IF st.i < Len(st.pending)
                    THEN /\ after.pc = "run"
                         /\ after.i = st.i + 1
                         /\ after.pending = st.pending
                    ELSE after.pc = "done"]_vars

(* a pass is at the second row of its list; the first row of the list is
   gone from the ledger and was counted eligible but not evaluated *)
C39_Witness ==
    /\ evalp["api"].pc = "run"
    /\ evalp["api"].i = 2
    /\ evalp["api"].pending[1].id \notin DOMAIN outcomes
    /\ evalp["api"].stats.eligible = 1
    /\ evalp["api"].stats.evaluated = 0
    /\ evalp["api"].stats.skipped_no_price = 0
    /\ Current("api").id \in DOMAIN outcomes

-----------------------------------------------------------------------------
(* The four tables with rows of many ages under cleanups of any window and
   under schedulers constructed with any retention *)

RetToday == 70

(* the ages, in days on day RetToday, of the rows of every table *)
RetAges == <<0, 1, 2, 29, 30, 31, 59, 60, 61, 62>>

RetentionArgs == {-5, 0, 45, 400}
CleanupWindows == {-5, 0, 1, 2, 45}
CleanupCalls == {c \in Calls : c[1] \in {"_cleanup_job", "cleanup_once"}}

InitRetention ==
    /\ today = RetToday
    /\ quotes = [s \in Symbols |-> {}]
    /\ evalp = [p \in EvalThreads |-> IdlePass]
    /\ cleanup_ret = NoDeleted
    /\ snapshots = [id \in DOMAIN RetAges |->
                      SnapshotRow("600519", "CN", strftime(RetToday - RetAges[id]),
                                  "premarket_outlook", Some(Doc(1, FALSE)),
                                  Some(Doc(100, FALSE)))]
    /\ snapshot_seq = Len(RetAges)
    /\ topics = [id \in DOMAIN RetAges |->
                   TopicRow(strftime(RetToday - RetAges[id]), Max(1, DefaultHistoryDays),
                            Watchlist, [docs |-> <<>>])]
    /\ topic_seq = Len(RetAges)
    /\ runs = [id \in DOMAIN RetAges |->
                 RunRow("premarket_outlook", "600519",
                        strftime(RetToday - RetAges[id]), None, None)]
    /\ run_seq = Len(RetAges)
    /\ outcomes = [id \in 1..(2 * Len(RetAges)) |->
                     IF id <= Len(RetAges)
                     THEN NewOutcome("600519", "CN", strftime(RetToday - RetAges[id]),
                                     1, Some(100), id)
                     ELSE NewOutcome("600519", "CN",
                                     [fmt |-> "slash",
                                      day |-> RetToday - RetAges[id - Len(RetAges)]],
                                     1, Some(100), id)]
    /\ outcome_seq = 2 * Len(RetAges)
    /\ buildp = [b \in Builders |-> IdleBuild]
    /\ sched \in {Scheduler(s, o) : s, o \in RetentionArgs}
    /\ news = IdleNews /\ kline = IdleKline
    /\ assembly = IdleAssembly
    /\ store_ret = None

NextRetention ==
    \/ AdvanceDay(RetToday + 1)
    \/ \E w \in CleanupWindows : Cleanup(w, w, w, w)
    \/ \E c \in CleanupCalls : JobCheck(c)
    \/ \E c \in CleanupCalls : JobSet(c)
    \/ \E c \in CleanupCalls, on_loop \in BOOLEAN : OnceStart(c, on_loop)
    \/ \E c \in CleanupCalls : CleanupJobRuns(c)
    \/ \E c \in CleanupCalls : CleanupJobRaises(c)
    \/ \E c \in CleanupCalls : CleanupOnceRuns(c)

SpecRetention == InitRetention /\ [][NextRetention]_vars

(* the ages of the rows a step removes from a table *)
AgesGone(before, after, field) ==
    {today - DayOf(before[id][field]) : id \in DOMAIN before \ DOMAIN after}

(* C40: no cleanup, whatever its window arguments, deletes a row dated
   today or yesterday; and a cleanup of the scheduler (_cleanup_job or
   cleanup_once) deletes no snapshot, topic or context-run row dated within
   the last 30 days and no prediction row dated within the last 60 days,
   whatever retention the scheduler was constructed with. *)
C40_RetentionFloors ==
    [][/\ \A age \in AgesGone(snapshots, snapshots', "snapshot_date")
                        \cup AgesGone(topics, topics', "snapshot_date")
                        \cup AgesGone(runs, runs', "analysis_date")
                        \cup AgesGone(outcomes, outcomes', "prediction_date") :
             age >= 2
       /\ (\E c \in CleanupCalls : CleanupJobRuns(c) \/ CleanupOnceRuns(c)) =>
             /\ \A age \in AgesGone(snapshots, snapshots', "snapshot_date")
                              \cup AgesGone(topics, topics', "snapshot_date")
                              \cup AgesGone(runs, runs', "analysis_date") :
                   age > 30
             /\ \A age \in AgesGone(outcomes, outcomes', "prediction_date") :
                   age > 60]_vars

(* a scheduler whose retention is at the floors has cleaned: the rows older
   than 30 days are gone from the snapshots, the row of 30 days ago is
   there, and in the ledger the row of 60 days ago is there and the one of
   61 days ago is not *)
C40_Witness ==
    /\ sched.snapshot_retention_days = MinSnapshotRetention
    /\ sched.outcome_retention_days = MinOutcomeRetention
    /\ today = RetToday
    /\ DOMAIN snapshots = {id \in DOMAIN RetAges : RetAges[id] <= 30}
    /\ \E id \in DOMAIN outcomes : outcomes[id].prediction_date = strftime(RetToday - 60)
    /\ ~\E id \in DOMAIN outcomes : outcomes[id].prediction_date = strftime(RetToday - 61)
    /\ cleanup_ret.stock_context_snapshots > 0
    /\ cleanup_ret.agent_prediction_outcomes > 0

====
